---- MODULE Spec2Model ----
(***************************************************************************)
(* A model of the Slack bot platform: bot discovery and registry, the     *)
(* HTTP event routes with message deduplication, and the LangGraph        *)
(* workflow (validate -> acknowledge -> fetchContext -> callClaude ->     *)
(* validateSlackFormatting -> formatResponse -> sendResponse, with        *)
(* handleError), together with the text functions the nodes use.          *)
(* Texts are TLA+ strings; the string functions work character by         *)
(* character, as the regular expressions of the source do.                *)
(***************************************************************************)
EXTENDS Integers, Sequences, FiniteSets, TLC

(* ------------------------------ bounds -------------------------------- *)

\* HTTP requests the model lets arrive.
MaxRequests == 2

\* Workflow invocations in flight: a request arrives, and a workflow is
\* dispatched, only while fewer than this many are running.
MaxInFlight == 1

\* Startup auth.test lookups that may still be unsettled when a request arrives.
MaxPendingAtArrival == 0

(* --------------------------- JavaScript values ------------------------ *)

\* null, undefined and a non-string JSON value (a number) in a string slot.
Null == "<null>"
Undefined == "<undefined>"
NumberValue == "<number>"

IsString(v) == v \notin {Null, Undefined, NumberValue}

\* JavaScript truthiness of a string | null | undefined slot.
Truthy(v) == v \notin {Null, Undefined, ""}

\* a || b
OrElse(a, b) == IF Truthy(a) THEN a ELSE b

(* --------------------------- string primitives ------------------------ *)

Char(s, i) == SubSeq(s, i, i)

From(s, i) == SubSeq(s, i, Len(s))

\* \s of the regular expressions and the characters String.trim() strips.
IsWhitespace(c) == c \in {" ", "\t", "\n", "\r"}

\* Line terminators: what '.' refuses and where '^' and '$' match under /m.
IsLineTerminator(c) == c \in {"\n", "\r"}

IsDigit(c) == c \in {"0", "1", "2", "3", "4", "5", "6", "7", "8", "9"}

UpperLetters == "ABCDEFGHIJKLMNOPQRSTUVWXYZ"
LowerLetters == "abcdefghijklmnopqrstuvwxyz"

IsUpper(c) == \E i \in 1..Len(UpperLetters) : Char(UpperLetters, i) = c
IsLower(c) == \E i \in 1..Len(LowerLetters) : Char(LowerLetters, i) = c

\* \w
IsWordChar(c) == IsUpper(c) \/ IsLower(c) \/ IsDigit(c) \/ c = "_"

LowerChar(c) ==
  IF IsUpper(c)
  THEN Char(LowerLetters, CHOOSE i \in 1..Len(UpperLetters) : Char(UpperLetters, i) = c)
  ELSE c

UpperChar(c) ==
  IF IsLower(c)
  THEN Char(UpperLetters, CHOOSE i \in 1..Len(LowerLetters) : Char(LowerLetters, i) = c)
  ELSE c

\* The case conversions map every character on its own, so the string is
\* converted half by half.
RECURSIVE ToLowerCase(_)
ToLowerCase(s) ==
  IF Len(s) = 0 THEN ""
  ELSE IF Len(s) = 1 THEN LowerChar(s)
  ELSE ToLowerCase(SubSeq(s, 1, Len(s) \div 2))
         \o ToLowerCase(From(s, Len(s) \div 2 + 1))

RECURSIVE ToUpperCase(_)
ToUpperCase(s) ==
  IF Len(s) = 0 THEN ""
  ELSE IF Len(s) = 1 THEN UpperChar(s)
  ELSE ToUpperCase(SubSeq(s, 1, Len(s) \div 2))
         \o ToUpperCase(From(s, Len(s) \div 2 + 1))

\* String.prototype.includes
Includes(s, sub) ==
  \E i \in 1..(Len(s) - Len(sub) + 1) : SubSeq(s, i, i + Len(sub) - 1) = sub

StartsWithAt(s, i, sub) ==
  /\ i + Len(sub) - 1 <= Len(s)
  /\ SubSeq(s, i, i + Len(sub) - 1) = sub

\* The first index from i on at which stop is TRUE, Len(s) + 1 when there is
\* none: how far a scan from i runs before it meets what it looks for.
FirstIndex(s, i, stop) ==
  IF \E j \in i..Len(s) : stop[j]
  THEN CHOOSE j \in i..Len(s) : stop[j] /\ \A k \in i..(j - 1) : ~stop[k]
  ELSE Len(s) + 1

TrimStart(s) ==
  From(s, FirstIndex(s, 1, [j \in 1..Len(s) |-> ~IsWhitespace(Char(s, j))]))

TrimEnd(s) ==
  IF \E j \in 1..Len(s) : ~IsWhitespace(Char(s, j))
  THEN SubSeq(s, 1, CHOOSE j \in 1..Len(s) :
                      /\ ~IsWhitespace(Char(s, j))
                      /\ \A k \in (j + 1)..Len(s) : IsWhitespace(Char(s, k)))
  ELSE ""

\* String.prototype.trim
Trim(s) == TrimEnd(TrimStart(s))

\* !response || response.trim().length === 0
IsBlankResponse(v) == (~Truthy(v)) \/ Len(Trim(v)) = 0

\* Skips from index i the characters that are in cs (inside = TRUE) or that are
\* not in cs (inside = FALSE): the index of the first character not skipped,
\* Len(s) + 1 when all are.
SkipWhile(s, i, cs, inside) ==
  FirstIndex(s, i, [j \in i..Len(s) |-> (Char(s, j) \in cs) # inside])

Whitespace == {" ", "\t", "\n", "\r"}

Quotes == {"\"", "'"}

(* ------------------- the three formatting detectors ------------------- *)

\* One match of /<a\s+href=["']([^"']+)["'][^>]*>([^<]+)<\/a>/ starting at i.
\* Every class of the pattern is the complement of the literal that follows it,
\* so the greedy match is the only one.
MatchAnchor(s, i) ==
  LET afterWs  == SkipWhile(s, i + 2, Whitespace, TRUE)
      quoteAt  == afterWs + 5
      urlEnd   == SkipWhile(s, quoteAt + 1, Quotes, FALSE)
      tagEnd   == SkipWhile(s, urlEnd + 1, {">"}, FALSE)
      textEnd  == SkipWhile(s, tagEnd + 1, {"<"}, FALSE)
      ok       == /\ StartsWithAt(s, i, "<a")
                  /\ afterWs > i + 2
                  /\ StartsWithAt(s, afterWs, "href=")
                  /\ quoteAt <= Len(s) /\ Char(s, quoteAt) \in Quotes
                  /\ urlEnd > quoteAt + 1 /\ urlEnd <= Len(s)
                  /\ tagEnd <= Len(s)
                  /\ textEnd > tagEnd + 1
                  /\ StartsWithAt(s, textEnd, "</a>")
  IN IF ok
     THEN [ok |-> TRUE, url |-> SubSeq(s, quoteAt + 1, urlEnd - 1),
           text |-> SubSeq(s, tagEnd + 1, textEnd - 1), end |-> textEnd + 3]
     ELSE [ok |-> FALSE, url |-> "", text |-> "", end |-> i]

hasHtmlLinks(s) == \E i \in 1..Len(s) : MatchAnchor(s, i).ok

\* '^' under the m flag.
IsLineStart(s, i) == IF i = 1 THEN TRUE ELSE IsLineTerminator(Char(s, i - 1))

\* /^#{1,6}\s+/m at i: one to six '#' and then whitespace.
HeaderPrefixAt(s, i) ==
  LET hashEnd == SkipWhile(s, i, {"#"}, TRUE)
  IN /\ IsLineStart(s, i)
     /\ hashEnd - i >= 1 /\ hashEnd - i <= 6
     /\ hashEnd <= Len(s) /\ IsWhitespace(Char(s, hashEnd))

hasMarkdownHeaders(s) == \E i \in 1..Len(s) : HeaderPrefixAt(s, i)

\* One match of /\*\*([^*]+)\*\*/ starting at i.
MatchBold(s, i) ==
  LET innerEnd == SkipWhile(s, i + 2, {"*"}, FALSE)
      ok == /\ StartsWithAt(s, i, "**")
            /\ innerEnd > i + 2
            /\ StartsWithAt(s, innerEnd, "**")
  IN IF ok
     THEN [ok |-> TRUE, inner |-> SubSeq(s, i + 2, innerEnd - 1), end |-> innerEnd + 1]
     ELSE [ok |-> FALSE, inner |-> "", end |-> i]

hasDoubleAsterisks(s) == \E i \in 1..Len(s) : MatchBold(s, i).ok

\* A check that sends every text to the rewriting service.
needsFormattingAlways(s) == TRUE

needsFormatting(s) == hasHtmlLinks(s) \/ hasMarkdownHeaders(s) \/ hasDoubleAsterisks(s)

(* ------------------- basicSlackFormatConversion ----------------------- *)

\* s.replace(/%2C/g, ',')
RECURSIVE DecodeCommas(_)
DecodeCommas(s) ==
  IF Len(s) = 0 THEN ""
  ELSE IF StartsWithAt(s, 1, "%2C") THEN "," \o DecodeCommas(From(s, 4))
  ELSE Char(s, 1) \o DecodeCommas(From(s, 2))

\* s.replace(/\s+/g, '_')
RECURSIVE UnderscoreSpaces(_)
UnderscoreSpaces(s) ==
  IF Len(s) = 0 THEN ""
  ELSE IF IsWhitespace(Char(s, 1))
       THEN "_" \o UnderscoreSpaces(From(s, SkipWhile(s, 1, Whitespace, TRUE)))
  ELSE Char(s, 1) \o UnderscoreSpaces(From(s, 2))

Digits == {"0", "1", "2", "3", "4", "5", "6", "7", "8", "9"}

\* One match of /(\w)\s+(\d+):(\d+)/ at the start of s.
MatchBookVerse(s) ==
  LET wsEnd  == SkipWhile(s, 2, Whitespace, TRUE)
      chEnd  == SkipWhile(s, wsEnd, Digits, TRUE)
      vsEnd  == SkipWhile(s, chEnd + 1, Digits, TRUE)
      ok == /\ Len(s) >= 1 /\ IsWordChar(Char(s, 1))
            /\ wsEnd > 2
            /\ chEnd > wsEnd
            /\ chEnd <= Len(s) /\ Char(s, chEnd) = ":"
            /\ vsEnd > chEnd + 1
  IN IF ok
     THEN [ok |-> TRUE,
           out |-> Char(s, 1) \o "." \o SubSeq(s, wsEnd, chEnd - 1) \o "."
                   \o SubSeq(s, chEnd + 1, vsEnd - 1),
           rest |-> vsEnd]
     ELSE [ok |-> FALSE, out |-> "", rest |-> 1]

\* s.replace(/(\w)\s+(\d+):(\d+)/g, '$1.$2.$3')
RECURSIVE DotBookVerse(_)
DotBookVerse(s) ==
  IF Len(s) = 0 THEN ""
  ELSE LET m == MatchBookVerse(s)
       IN IF m.ok THEN m.out \o DotBookVerse(From(s, m.rest))
          ELSE Char(s, 1) \o DotBookVerse(From(s, 2))

\* s.replace(/:(\d+)/g, '.$1')
RECURSIVE DotColons(_)
DotColons(s) ==
  IF Len(s) = 0 THEN ""
  ELSE IF Char(s, 1) = ":" /\ Len(s) >= 2 /\ IsDigit(Char(s, 2))
       THEN LET dEnd == SkipWhile(s, 2, Digits, TRUE)
            IN "." \o SubSeq(s, 2, dEnd - 1) \o DotColons(From(s, dEnd))
  ELSE Char(s, 1) \o DotColons(From(s, 2))

\* The clean-up of a Sefaria link target, in the order of the source.
cleanUrl(url) == DotColons(DotBookVerse(UnderscoreSpaces(DecodeCommas(url))))

\* The replacement callback of the anchor pattern.
AnchorReplacement(url, text) ==
  IF Includes(url, "sefaria.org")
  THEN "<" \o cleanUrl(url) \o "|" \o text \o ">"
  ELSE "<" \o url \o "|" \o text \o ">"

\* s.replace(/<a\s+href=...<\/a>/g, callback), scanning from index i.
RECURSIVE ConvertAnchors(_, _)
ConvertAnchors(s, i) ==
  LET at == FirstIndex(s, i, [j \in i..Len(s) |-> MatchAnchor(s, j).ok])
      m  == MatchAnchor(s, at)
  IN IF at > Len(s) THEN From(s, i)
     ELSE SubSeq(s, i, at - 1) \o AnchorReplacement(m.url, m.text) \o ConvertAnchors(s, m.end + 1)

\* End of the line that index i is on: index of its terminator, or Len(s) + 1.
LineEnd(s, i) == SkipWhile(s, i, {"\n", "\r"}, FALSE)

\* Largest j in lo..hi whose character is no line terminator, 0 when none.
LastNonTerminator(s, lo, hi) ==
  IF \E j \in lo..hi : ~IsLineTerminator(Char(s, j))
  THEN CHOOSE j \in lo..hi : /\ ~IsLineTerminator(Char(s, j))
                             /\ \A k \in (j + 1)..hi : IsLineTerminator(Char(s, k))
  ELSE 0

\* One match of /^#{1,6}\s+(.+)$/gm at i. \s+ is greedy and may run over line
\* ends; when the whitespace reaches the end of the text it gives characters
\* back until (.+) can take one that is no line terminator.
MatchHeader(s, i) ==
  LET hashEnd  == SkipWhile(s, i, {"#"}, TRUE)
      wsEnd    == SkipWhile(s, hashEnd, Whitespace, TRUE)
      titleAt  == IF wsEnd <= Len(s) THEN wsEnd
                  ELSE LastNonTerminator(s, hashEnd + 1, Len(s))
      ok == HeaderPrefixAt(s, i) /\ titleAt > 0
      titleEnd == LineEnd(s, titleAt)
  IN IF ok
     THEN [ok |-> TRUE, title |-> SubSeq(s, titleAt, titleEnd - 1), end |-> titleEnd - 1]
     ELSE [ok |-> FALSE, title |-> "", end |-> i]

\* s.replace(/^#{1,6}\s+(.+)$/gm, '*$1*'), scanning from index i.
RECURSIVE ConvertHeaders(_, _)
ConvertHeaders(s, i) ==
  LET at == FirstIndex(s, i, [j \in i..Len(s) |-> MatchHeader(s, j).ok])
      m  == MatchHeader(s, at)
  IN IF at > Len(s) THEN From(s, i)
     ELSE SubSeq(s, i, at - 1) \o "*" \o m.title \o "*" \o ConvertHeaders(s, m.end + 1)

\* s.replace(/\*\*([^*]+)\*\*/g, '*$1*'), scanning from index i.
RECURSIVE ConvertBold(_, _)
ConvertBold(s, i) ==
  LET at == FirstIndex(s, i, [j \in i..Len(s) |-> MatchBold(s, j).ok])
      m  == MatchBold(s, at)
  IN IF at > Len(s) THEN From(s, i)
     ELSE SubSeq(s, i, at - 1) \o "*" \o m.inner \o "*" \o ConvertBold(s, m.end + 1)

basicSlackFormatConversion(response) ==
  ConvertBold(ConvertHeaders(ConvertAnchors(response, 1), 1), 1)

(* ---------------------- the formatResponse post-pass ------------------ *)

\* The banner of the source begins with a warning-sign emoji, written "(!)" here.
CoverageBanner ==
  "(!) *Limited Coverage*: This topic may not be fully covered in Sefaria's collection.\n\n"

addCoverageWarningIfNeeded(response) ==
  IF \/ Includes(ToLowerCase(response), "limited coverage")
     \/ Includes(ToLowerCase(response), "few sources")
     \/ Includes(ToLowerCase(response), "not well covered")
  THEN CoverageBanner \o response
  ELSE response

\* s.replace(/[ \t]{2,}/g, ' ')
RECURSIVE CollapseBlanks(_)
CollapseBlanks(s) ==
  LET at     == FirstIndex(s, 1, [j \in 1..Len(s) |-> SkipWhile(s, j, {" ", "\t"}, TRUE) >= j + 2])
      runEnd == SkipWhile(s, at, {" ", "\t"}, TRUE)
  IN IF at > Len(s) THEN s
     ELSE SubSeq(s, 1, at - 1) \o " " \o CollapseBlanks(From(s, runEnd))

\* s.replace(/\n{3,}/g, '\n\n')
RECURSIVE CollapseNewlines(_)
CollapseNewlines(s) ==
  LET at     == FirstIndex(s, 1, [j \in 1..Len(s) |-> SkipWhile(s, j, {"\n"}, TRUE) >= j + 3])
      runEnd == SkipWhile(s, at, {"\n"}, TRUE)
  IN IF at > Len(s) THEN s
     ELSE SubSeq(s, 1, at - 1) \o "\n\n" \o CollapseNewlines(From(s, runEnd))

cleanResponse(response) == Trim(CollapseNewlines(CollapseBlanks(response)))

(* ------------------------ configuration and registry ------------------ *)

\* process.env is a sequence of <<key, value>> pairs, in iteration order.
EnvTwoBots ==
  << <<"BINA_SLACK_TOKEN", "xoxb-bina">>, <<"BINA_SIGNING_SECRET", "sec-bina">>,
     <<"BINAH_SLACK_TOKEN", "xoxb-binah">>, <<"BINAH_SIGNING_SECRET", "sec-binah">> >>

EnvLegacy ==
  << <<"SLACK_BOT_TOKEN", "xoxb-bina">>, <<"SLACK_SIGNING_SECRET", "sec-bina">> >>

EnvEmpty == << >>

Envs == {EnvTwoBots, EnvLegacy, EnvEmpty}

\* process.env[key]
EnvGet(e, key) ==
  IF \E i \in 1..Len(e) : e[i][1] = key
  THEN e[CHOOSE i \in 1..Len(e) : e[i][1] = key][2]
  ELSE Undefined

\* envVar.match(/^(\w+)_SLACK_TOKEN$/): the captured name, Null without a match.
MatchSlackTokenVar(key) ==
  LET suffix == "_SLACK_TOKEN"
      n == Len(key) - Len(suffix)
  IN IF /\ n >= 1
        /\ SubSeq(key, n + 1, Len(key)) = suffix
        /\ \A i \in 1..Len(key) : IsWordChar(Char(key, i))
     THEN SubSeq(key, 1, n)
     ELSE Null

\* The Set botNames built by the first loop of discoverAndRegisterBots, as the
\* sequence of its elements in insertion order.
RECURSIVE DiscoverBotNames(_, _)
DiscoverBotNames(e, i) ==
  IF i > Len(e) THEN << >>
  ELSE LET rest == DiscoverBotNames(e, i + 1)
           m == MatchSlackTokenVar(e[i][1])
           name == ToLowerCase(m)
       IN IF m = Null THEN rest
          ELSE <<name>> \o SelectSeq(rest, LAMBDA x : x # name)

getWorkflowFactory(botName) ==
  IF botName = "binah" THEN "createBinahWorkflow" ELSE "createBinaWorkflow"

\* A registry that moves a re-registered name to the end, as a delete
\* followed by a set would.
registerBotMovingToEnd(registry, config) ==
  Append(SelectSeq(registry, LAMBDA c : c.name # config.name), config)

\* BotRegistry.registerBot: Map.set keeps the position of a key already present.
registerBot(registry, config) ==
  IF \E i \in 1..Len(registry) : registry[i].name = config.name
  THEN [i \in 1..Len(registry) |->
          IF registry[i].name = config.name THEN config ELSE registry[i]]
  ELSE Append(registry, config)

\* BotRegistry.getBot, with Null for undefined.
hasBot(registry, name) == \E i \in 1..Len(registry) : registry[i].name = name

getBot(registry, name) ==
  registry[CHOOSE i \in 1..Len(registry) : registry[i].name = name]

listBots(registry) == [i \in 1..Len(registry) |-> registry[i].name]

\* The configurations discoverAndRegisterBots registers, in order; << >> when it
\* throws for want of any configuration.
RECURSIVE DiscoveredConfigs(_, _)
DiscoveredConfigs(e, names) ==
  IF names = << >> THEN << >>
  ELSE LET botName == Head(names)
           tokenVar == ToUpperCase(botName) \o "_SLACK_TOKEN"
           secretVar == ToUpperCase(botName) \o "_SIGNING_SECRET"
           rest == DiscoveredConfigs(e, Tail(names))
       IN IF ~Truthy(EnvGet(e, tokenVar)) \/ ~Truthy(EnvGet(e, secretVar))
          THEN rest
          ELSE << [name |-> botName, slackToken |-> EnvGet(e, tokenVar),
                   signingSecret |-> EnvGet(e, secretVar),
                   workflowFactory |-> getWorkflowFactory(botName)] >> \o rest

HasLegacyConfig(e) ==
  Truthy(EnvGet(e, "SLACK_BOT_TOKEN")) /\ Truthy(EnvGet(e, "SLACK_SIGNING_SECRET"))

discoverAndRegisterBots(e) ==
  LET botNames == DiscoverBotNames(e, 1)
  IN IF botNames = << >>
     THEN IF HasLegacyConfig(e)
          THEN << [name |-> "bina", slackToken |-> EnvGet(e, "SLACK_BOT_TOKEN"),
                   signingSecret |-> EnvGet(e, "SLACK_SIGNING_SECRET"),
                   workflowFactory |-> "createBinaWorkflow"] >>
          ELSE << >>
     ELSE DiscoveredConfigs(e, botNames)

\* Whether discoverAndRegisterBots throws 'No bot configurations found'.
DiscoveryThrows(e) == DiscoverBotNames(e, 1) = << >> /\ ~HasLegacyConfig(e)

RECURSIVE RegisterAll(_, _)
RegisterAll(registry, configs) ==
  IF configs = << >> THEN registry
  ELSE RegisterAll(registerBot(registry, Head(configs)), Tail(configs))

(* --------------------------- the Slack platform ----------------------- *)

\* The user id auth.test reports for a token.
UserIdOfToken(token) ==
  IF token = "xoxb-binah" THEN "UBINAH" ELSE "UBINA"

\* What bots.info may report as the name of bot B1.
BotInfoNames == {"Bina", "helper"}

(* ------------------------------ inbound events ------------------------ *)

BaseEvent ==
  [type |-> "message", user |-> "U1", text |-> "hello", ts |-> "1", channel |-> "C1",
   thread_ts |-> Undefined, bot_id |-> Undefined, subtype |-> Undefined,
   message_text |-> Undefined]

MentionBina == [BaseEvent EXCEPT !.text = "<@UBINA> what is Shabbat?"]
MentionBinah == [BaseEvent EXCEPT !.text = "<@UBINAH> compare sources"]
\* An edit notification whose inner message text is a number, not a string.
EditedNumber == [BaseEvent EXCEPT !.text = Undefined, !.ts = "2",
                                  !.subtype = "message_changed",
                                  !.message_text = NumberValue]
BotMessage == [BaseEvent EXCEPT !.text = "<@UBINA> from a bot", !.ts = "2",
                                !.bot_id = "B1", !.subtype = "bot_message"]
\* A message whose text is a number, not a string.
NumberText == [BaseEvent EXCEPT !.text = NumberValue, !.ts = "2"]
ReactionEvent == [BaseEvent EXCEPT !.type = "reaction_added", !.text = Undefined]
\* The body carries no event.
NoEvent == [BaseEvent EXCEPT !.type = Undefined, !.text = Undefined]

MessageEvents == {MentionBina, MentionBinah, EditedNumber, BotMessage, NumberText}

\* Request bodies: the handshake, message callbacks, and another event type.
Bodies ==
  {[type |-> "url_verification", challenge |-> "tok", event |-> NoEvent]}
  \cup {[type |-> "event_callback", challenge |-> Undefined, event |-> e] :
           e \in MessageEvents \cup {ReactionEvent}}

\* The :botName path parameters that are tried.
PathNames == {"bina", "BINAH", "ghost"}

\* `${event.channel}-${event.ts}`
messageId(event) == event.channel \o "-" \o event.ts

MessageIds == {messageId(e) : e \in MessageEvents}

\* getMessageText of nodes.ts
getMessageText(event) ==
  IF event.text # Undefined THEN event.text
  ELSE IF event.message_text # Undefined THEN event.message_text
  ELSE Null

(* ------------------------------- the state ---------------------------- *)

VARIABLES
  env,                \* process.env
  phase,              \* "init", "serving", or "exited" (startup failed)
  registry,           \* botRegistry.bots, in insertion order
  fallbackHandler,    \* whether SlackMCPApp.fallbackHandler is set
  slackClient,        \* nodes.ts: the token of the module-level WebClient
  botUserId,          \* nodes.ts: the module-level bot user id
  isCLIMode,          \* nodes.ts: the module-level CLI flag
  pendingAuthTests,   \* tokens whose auth.test of initializeServices is pending
  binahAgent,         \* binah-workflow.ts: whether the deep agent is cached
  processedMessages,  \* SlackMCPApp.processedMessages, in insertion order
  botInfoCache,       \* SlackMCPApp.botInfoCache: bot_id -> name, Null if absent
  reqs,               \* the HTTP requests
  wf,                 \* the workflow invocations, one per dispatched request
  posted              \* messages Slack accepted, per dedup key

vars ==
  <<env, phase, registry, fallbackHandler, slackClient, botUserId, isCLIMode,
    pendingAuthTests, binahAgent, processedMessages, botInfoCache, reqs, wf, posted>>

Requests == 1..MaxRequests

IdleRequest == [status |-> "idle"]
NoWorkflow == [pc |-> "none"]

InFlight == {r \in Requests : wf[r].pc \notin {"none", "done", "rejected"}}

Init ==
  /\ env \in Envs
  /\ phase = "init"
  /\ registry = << >>
  /\ fallbackHandler = FALSE
  /\ slackClient = Undefined
  /\ botUserId = ""
  /\ isCLIMode = FALSE
  /\ pendingAuthTests = {}
  /\ binahAgent = FALSE
  /\ processedMessages = << >>
  /\ botInfoCache = [b \in {"B1"} |-> Null]
  /\ reqs = [r \in Requests |-> IdleRequest]
  /\ wf = [r \in Requests |-> NoWorkflow]
  /\ posted = [k \in MessageIds |-> 0]

(* ------------------------------- startup ------------------------------ *)

\* SlackMCPApp.initialize: discovery registers each bot and calls
\* initializeServices for it, which replaces the module-level clients and
\* starts an auth.test whose answer arrives later. No await of the loop waits
\* for the network, so the loop is one step.
Initialize ==
  /\ phase = "init"
  /\ LET configs == discoverAndRegisterBots(env)
     IN IF DiscoveryThrows(env)
        THEN /\ phase' = "exited"
             /\ UNCHANGED <<registry, fallbackHandler, slackClient, pendingAuthTests>>
        ELSE /\ phase' = "serving"
             /\ registry' = RegisterAll(registry, configs)
             /\ fallbackHandler' = (DiscoverBotNames(env, 1) = << >>)
             /\ slackClient' = IF configs = << >> THEN slackClient
                                ELSE configs[Len(configs)].slackToken
             /\ pendingAuthTests' = {configs[i].slackToken : i \in 1..Len(configs)}
  /\ UNCHANGED <<env, botUserId, isCLIMode, binahAgent, processedMessages,
                 botInfoCache, reqs, wf, posted>>

\* initializeServices: slackClient.auth.test().then(result => botUserId = ...)
AuthTestResolves(token) ==
  /\ token \in pendingAuthTests
  /\ pendingAuthTests' = pendingAuthTests \ {token}
  /\ botUserId' = UserIdOfToken(token)
  /\ UNCHANGED <<env, phase, registry, fallbackHandler, slackClient, isCLIMode,
                 binahAgent, processedMessages, botInfoCache, reqs, wf, posted>>

\* initializeServices: .catch(error => console.error(...))
AuthTestRejects(token) ==
  /\ token \in pendingAuthTests
  /\ pendingAuthTests' = pendingAuthTests \ {token}
  /\ UNCHANGED <<env, phase, registry, fallbackHandler, slackClient, botUserId,
                 isCLIMode, binahAgent, processedMessages, botInfoCache, reqs, wf,
                 posted>>

(* ------------------------------ HTTP routes --------------------------- *)

\* The dedup set is cleaned when it grows past DedupCapacity entries.
DedupCapacity == 1000
DedupEvictCount == 500

\* A handler that leaves the dedup set as it was.
MarkProcessedNever(processed, id) == processed

\* A clean-up that drops the newest keys instead of the oldest ones.
MarkProcessedDroppingNewest(processed, id) ==
  LET added == Append(processed, id)
  IN IF Len(added) > DedupCapacity
     THEN SubSeq(added, 1, Len(added) - DedupEvictCount)
     ELSE added

\* processedMessages after add(id) and the clean-up that follows it.
MarkProcessed(processed, id) ==
  LET added == Append(processed, id)
  IN IF Len(added) > DedupCapacity
     THEN SubSeq(added, DedupEvictCount + 1, Len(added))
     ELSE added

\* A membership test that never finds a key: what the handler would do
\* without the dedup check.
IsDuplicateNever(processed, id) == FALSE

\* this.processedMessages.has(messageId)
IsDuplicate(processed, id) == \E i \in 1..Len(processed) : processed[i] = id

IsMessageCallback(body) ==
  body.type = "event_callback" /\ body.event.type = "message"

\* Whether handleSlackEvent would start a workflow for this request.
WouldDispatch(body, botName) ==
  /\ body.type # "url_verification"
  /\ hasBot(registry, botName)
  /\ IsMessageCallback(body)
  /\ ~IsDuplicate(processedMessages, messageId(body.event))

\* A handler that marks the message before it looks the bot up.
handleSlackEventMarkingFirst(r, body, botName) ==
  LET id == messageId(body.event)
      done(code, payload, dispatched) ==
        [status |-> "handled", botName |-> botName, type |-> body.type,
         key |-> IF IsMessageCallback(body) THEN id ELSE Null,
         code |-> code, payload |-> payload, dispatched |-> dispatched]
  IN /\ WouldDispatch(body, botName) => Cardinality(InFlight) < MaxInFlight
     /\ IF body.type = "url_verification"
        THEN /\ reqs' = [reqs EXCEPT ![r] = done(200, body.challenge, FALSE)]
             /\ UNCHANGED <<processedMessages, wf>>
        ELSE IF IsMessageCallback(body)
        THEN IF IsDuplicate(processedMessages, id)
             THEN /\ reqs' = [reqs EXCEPT ![r] = done(200, "OK", FALSE)]
                  /\ UNCHANGED <<processedMessages, wf>>
             ELSE IF ~hasBot(registry, botName)
             THEN /\ processedMessages' = MarkProcessed(processedMessages, id)
                  /\ reqs' = [reqs EXCEPT ![r] = done(404, "not found", FALSE)]
                  /\ UNCHANGED wf
             ELSE /\ processedMessages' = MarkProcessed(processedMessages, id)
                  /\ reqs' = [reqs EXCEPT ![r] = done(200, "OK", TRUE)]
                  /\ wf' = [wf EXCEPT ![r] =
                              [pc |-> "resolveUserId", bot |-> getBot(registry, botName),
                               event |-> body.event]]
        ELSE /\ reqs' = [reqs EXCEPT ![r] = done(200, "OK", FALSE)]
             /\ UNCHANGED <<processedMessages, wf>>

\* A handler that looks the bot up before it answers the handshake.
handleSlackEventLookupFirst(r, body, botName) ==
  LET id == messageId(body.event)
      done(code, payload, dispatched) ==
        [status |-> "handled", botName |-> botName, type |-> body.type,
         key |-> IF IsMessageCallback(body) THEN id ELSE Null,
         code |-> code, payload |-> payload, dispatched |-> dispatched]
  IN /\ WouldDispatch(body, botName) => Cardinality(InFlight) < MaxInFlight
     /\ IF ~hasBot(registry, botName)
        THEN /\ reqs' = [reqs EXCEPT ![r] = done(404, "not found", FALSE)]
             /\ UNCHANGED <<processedMessages, wf>>
        ELSE IF body.type = "url_verification"
        THEN /\ reqs' = [reqs EXCEPT ![r] = done(200, body.challenge, FALSE)]
             /\ UNCHANGED <<processedMessages, wf>>
        ELSE IF IsMessageCallback(body)
        THEN IF IsDuplicate(processedMessages, id)
             THEN /\ reqs' = [reqs EXCEPT ![r] = done(200, "OK", FALSE)]
                  /\ UNCHANGED <<processedMessages, wf>>
             ELSE /\ processedMessages' = MarkProcessed(processedMessages, id)
                  /\ reqs' = [reqs EXCEPT ![r] = done(200, "OK", TRUE)]
                  /\ wf' = [wf EXCEPT ![r] =
                              [pc |-> "resolveUserId", bot |-> getBot(registry, botName),
                               event |-> body.event]]
        ELSE /\ reqs' = [reqs EXCEPT ![r] = done(200, "OK", FALSE)]
             /\ UNCHANGED <<processedMessages, wf>>

\* SlackMCPApp.handleSlackEvent. The method never awaits: check, insertion,
\* response and dispatch are one step.
handleSlackEvent(r, body, botName) ==
  LET id == messageId(body.event)
      done(code, payload, dispatched) ==
        [status |-> "handled", botName |-> botName, type |-> body.type,
         key |-> IF IsMessageCallback(body) THEN id ELSE Null,
         code |-> code, payload |-> payload, dispatched |-> dispatched]
  IN /\ WouldDispatch(body, botName) => Cardinality(InFlight) < MaxInFlight
     /\ IF body.type = "url_verification"
        THEN /\ reqs' = [reqs EXCEPT ![r] = done(200, body.challenge, FALSE)]
             /\ UNCHANGED <<processedMessages, wf>>
        ELSE IF ~hasBot(registry, botName)
        THEN /\ reqs' = [reqs EXCEPT ![r] = done(404, "not found", FALSE)]
             /\ UNCHANGED <<processedMessages, wf>>
        ELSE IF IsMessageCallback(body)
        THEN IF IsDuplicate(processedMessages, id)
             THEN /\ reqs' = [reqs EXCEPT ![r] = done(200, "OK", FALSE)]
                  /\ UNCHANGED <<processedMessages, wf>>
             ELSE /\ processedMessages' = MarkProcessed(processedMessages, id)
                  /\ reqs' = [reqs EXCEPT ![r] = done(200, "OK", TRUE)]
                  /\ wf' = [wf EXCEPT ![r] =
                              [pc |-> "resolveUserId", bot |-> getBot(registry, botName),
                               event |-> body.event]]
        ELSE /\ reqs' = [reqs EXCEPT ![r] = done(200, "OK", FALSE)]
             /\ UNCHANGED <<processedMessages, wf>>

\* Requests arrive in the order of their numbers.
MayArrive(r) ==
  /\ phase = "serving"
  /\ Cardinality(pendingAuthTests) <= MaxPendingAtArrival
  /\ Cardinality(InFlight) < MaxInFlight
  /\ reqs[r].status = "idle"
  /\ r > 1 => reqs[r - 1].status # "idle"

\* identifyBotFromBotId has to ask Slack: no cached entry, and a bot to ask with.
NeedsLookup(body) ==
  /\ body.type # "url_verification"
  /\ body.event.type = "message"
  /\ Truthy(body.event.bot_id)
  /\ botInfoCache[body.event.bot_id] = Null
  /\ Len(registry) > 0

\* A router whose default is the bot registered last.
detectBotFromMessageLastBot(body) ==
  IF Len(registry) > 0 THEN listBots(registry)[Len(registry)] ELSE "bina"

\* detectBotFromMessage where it needs no call to Slack.
detectBotFromMessage(body) ==
  IF body.type = "url_verification" THEN "bina"
  ELSE IF body.event.type # "message" THEN "bina"
  ELSE IF Truthy(body.event.bot_id) /\ botInfoCache[body.event.bot_id] # Null
       THEN botInfoCache[body.event.bot_id]
  ELSE "bina"

\* POST /slack/events: the route awaits detectBotFromMessage.
PostSharedEndpoint(r, body) ==
  /\ MayArrive(r)
  /\ reqs' = [reqs EXCEPT ![r] =
       IF NeedsLookup(body)
       THEN [status |-> "lookup", body |-> body, idx |-> 1]
       ELSE [status |-> "routed", body |-> body, botName |-> detectBotFromMessage(body)]]
  /\ UNCHANGED <<env, phase, registry, fallbackHandler, slackClient, botUserId,
                 isCLIMode, pendingAuthTests, binahAgent, processedMessages,
                 botInfoCache, wf, posted>>

\* matchingBot || botInfo.name
IdentifiedName(infoName) ==
  IF hasBot(registry, ToLowerCase(infoName)) THEN ToLowerCase(infoName) ELSE infoName

\* identifyBotFromBotId: bots.info answers for the bot tried at index idx.
BotsInfoSucceeds(r, infoName) ==
  /\ reqs[r].status = "lookup"
  /\ botInfoCache' = [botInfoCache EXCEPT ![reqs[r].body.event.bot_id] = infoName]
  /\ reqs' = [reqs EXCEPT ![r] =
       [status |-> "routed", body |-> reqs[r].body, botName |-> IdentifiedName(infoName)]]
  /\ UNCHANGED <<env, phase, registry, fallbackHandler, slackClient, botUserId,
                 isCLIMode, pendingAuthTests, binahAgent, processedMessages, wf,
                 posted>>

\* identifyBotFromBotId: bots.info throws; the loop goes on to the next bot, and
\* past the last one detectBotFromMessage falls back to 'bina'.
BotsInfoFails(r) ==
  /\ reqs[r].status = "lookup"
  /\ reqs' = [reqs EXCEPT ![r] =
       IF reqs[r].idx < Len(registry)
       THEN [@ EXCEPT !.idx = @ + 1]
       ELSE [status |-> "routed", body |-> reqs[r].body, botName |-> "bina"]]
  /\ UNCHANGED <<env, phase, registry, fallbackHandler, slackClient, botUserId,
                 isCLIMode, pendingAuthTests, binahAgent, processedMessages,
                 botInfoCache, wf, posted>>

\* POST /slack/events continues: this.handleSlackEvent(req, res, botName)
HandleRouted(r) ==
  /\ reqs[r].status = "routed"
  /\ handleSlackEvent(r, reqs[r].body, reqs[r].botName)
  /\ UNCHANGED <<env, phase, registry, fallbackHandler, slackClient, botUserId,
                 isCLIMode, pendingAuthTests, binahAgent, botInfoCache, posted>>

\* POST /slack/events/:botName
PostBotEndpoint(r, pathName, body) ==
  /\ MayArrive(r)
  /\ handleSlackEvent(r, body, ToLowerCase(pathName))
  /\ UNCHANGED <<env, phase, registry, fallbackHandler, slackClient, botUserId,
                 isCLIMode, pendingAuthTests, binahAgent, botInfoCache, posted>>

(* --------------------------- context building ------------------------- *)

UpperOrDigit(c) == IsUpper(c) \/ IsDigit(c)

\* The end of a run of [A-Z0-9] that starts at i (i itself when there is none).
IdRunEnd(s, i) == FirstIndex(s, i, [j \in i..Len(s) |-> ~UpperOrDigit(Char(s, j))])

\* s.replace(/<@[UW][A-Z0-9]+>/g, '')
RECURSIVE StripUserMentions(_)
StripUserMentions(s) ==
  LET idEnd(j) == IdRunEnd(s, j + 3)
      ok(j) == /\ StartsWithAt(s, j, "<@")
               /\ Len(s) >= j + 2 /\ Char(s, j + 2) \in {"U", "W"}
               /\ idEnd(j) > j + 3
               /\ idEnd(j) <= Len(s) /\ Char(s, idEnd(j)) = ">"
      at == FirstIndex(s, 1, [j \in 1..Len(s) |-> ok(j)])
  IN IF at > Len(s) THEN s
     ELSE SubSeq(s, 1, at - 1) \o StripUserMentions(From(s, idEnd(at) + 1))

\* s.replace(/<#[C][A-Z0-9]+\|([^>]+)>/g, '#$1')
RECURSIVE RewriteChannelLinks(_)
RewriteChannelLinks(s) ==
  LET idEnd(j) == IdRunEnd(s, j + 3)
      nameEnd(j) == SkipWhile(s, idEnd(j) + 1, {">"}, FALSE)
      ok(j) == /\ StartsWithAt(s, j, "<#C")
               /\ idEnd(j) > j + 3
               /\ idEnd(j) <= Len(s) /\ Char(s, idEnd(j)) = "|"
               /\ nameEnd(j) > idEnd(j) + 1 /\ nameEnd(j) <= Len(s)
      at == FirstIndex(s, 1, [j \in 1..Len(s) |-> ok(j)])
  IN IF at > Len(s) THEN s
     ELSE SubSeq(s, 1, at - 1) \o "#" \o SubSeq(s, idEnd(at) + 1, nameEnd(at) - 1)
            \o RewriteChannelLinks(From(s, nameEnd(at) + 1))

\* s.replace(/<([^>]+)>/g, '$1')
RECURSIVE StripAngleBrackets(_)
StripAngleBrackets(s) ==
  LET close(j) == SkipWhile(s, j + 1, {">"}, FALSE)
      ok(j) == Char(s, j) = "<" /\ close(j) > j + 1 /\ close(j) <= Len(s)
      at == FirstIndex(s, 1, [j \in 1..Len(s) |-> ok(j)])
  IN IF at > Len(s) THEN s
     ELSE SubSeq(s, 1, at - 1) \o SubSeq(s, at + 1, close(at) - 1)
            \o StripAngleBrackets(From(s, close(at) + 1))

cleanMessageText(text) ==
  Trim(StripAngleBrackets(RewriteChannelLinks(StripUserMentions(text))))

MaxContentLength == 2000

\* A builder that cuts a long content and appends no marker.
ContextMessageNoMarker(msg) ==
  LET content == cleanMessageText(msg.text)
  IN [role |-> IF Truthy(msg.bot_id) THEN "assistant" ELSE "user",
      content |-> IF Len(content) > MaxContentLength
                  THEN SubSeq(content, 1, MaxContentLength)
                  ELSE content]

\* One message of buildConversationContext.
ContextMessage(msg) ==
  LET content == cleanMessageText(msg.text)
  IN [role |-> IF Truthy(msg.bot_id) THEN "assistant" ELSE "user",
      content |-> IF Len(content) > MaxContentLength
                  THEN SubSeq(content, 1, MaxContentLength) \o "..."
                  ELSE content]

RECURSIVE buildConversationContext(_)
buildConversationContext(messages) ==
  IF messages = << >> THEN << >>
  ELSE IF Len(Trim(Head(messages).text)) = 0
       THEN buildConversationContext(Tail(messages))
  ELSE <<ContextMessage(Head(messages))>> \o buildConversationContext(Tail(messages))

\* The message record getThreadHistory makes of an event or of a reply.
AsMessage(e) ==
  [user |-> e.user, text |-> OrElse(e.text, ""), ts |-> e.ts, thread_ts |-> e.thread_ts,
   bot_id |-> e.bot_id]

ParentMessage ==
  [user |-> "U2", text |-> "<@UBINA> an earlier question", ts |-> "0",
   thread_ts |-> Undefined, bot_id |-> Undefined]

Throws == "<throws>"

\* The limit of conversations.replies.
ThreadLimit == 5

\* What conversations.replies may answer for the thread of an event.
ThreadReplies(e) ==
  {[throws |-> TRUE, messages |-> << >>]}
  \cup {[throws |-> FALSE, messages |-> m] :
          m \in {x \in {<<ParentMessage, AsMessage(e)>>} : Len(x) <= ThreadLimit}}

\* getThreadHistory: any failure of the call yields the empty history.
getThreadHistory(currentEvent, replies, cli) ==
  IF cli THEN << >>
  ELSE IF replies.throws THEN << >>
  ELSE LET currentText == getMessageText(currentEvent)
           messages == replies.messages
       IN IF /\ ~\E i \in 1..Len(messages) : messages[i].ts = currentEvent.ts
             /\ Truthy(currentText) /\ Truthy(currentEvent.user)
          THEN Append(messages, [AsMessage(currentEvent) EXCEPT !.text = currentText])
          ELSE messages

(* ------------------------- the reasoning services --------------------- *)

SorryErrorText == "Sorry, I encountered an error while processing your request."

SorrySynthesisText ==
  "Sorry, I received data from sources but Claude did not provide a final response. This may be an MCP integration issue."

\* The debug-mode text of the catch of sendMessage, abridged.
DebugErrorText == "*Claude Service Debug Error:*\n\n*Error:* request failed"

\* What the first messages.create call may yield as its text blocks joined.
ClaudeTexts == {" \n", "Shabbat is the day of rest.", "## Shabbat\n**Rest** on the seventh day"}

\* What the follow-up messages.create call may yield.
FollowUpTexts == {"", "Shabbat, in sum, is the day of rest."}

\* ClaudeServiceImpl.sendMessage: first and followUp are the texts the two API
\* calls yield, or Throws; debug is DEBUG=true. It returns a text in every case.
sendMessage(first, followUp, debug) ==
  IF first = Throws
  THEN IF debug THEN DebugErrorText ELSE SorryErrorText
  ELSE IF IsBlankResponse(first)
       THEN IF followUp # Throws /\ ~IsBlankResponse(followUp)
            THEN followUp
            ELSE SorrySynthesisText
  ELSE first

\* callClaudeNode, given what claudeService.sendMessage returned.
callClaudeNode(response) ==
  IF IsBlankResponse(response)
  THEN [errorOccurred |-> TRUE, error |-> "Claude returned empty response"]
  ELSE [claudeResponse |-> response]

\* What the deep agent's result may be extracted to.
DeepAgentTexts == {"A comparison of the sources.", " "}

\* callDeepAgentNode of the binah workflow: ready is whether initializeBinahAgent
\* succeeded, stream and invoke are the extracted texts or Throws.
callDeepAgentNode(ready, stream, invoke) ==
  IF ~ready \/ (stream = Throws /\ invoke = Throws)
  THEN [errorOccurred |-> TRUE, error |-> "Deep agent processing failed: error"]
  ELSE [claudeResponse |-> IF stream # Throws THEN stream ELSE invoke]

\* What the Haiku rewriting call may yield.
HaikuTexts == {"", " ", "*Shabbat*\n*Rest* on the seventh day"}

\* A correction without the deterministic fallback: when the rewriting
\* call fails the text is kept as it is.
correctSlackFormattingNoFallback(response, corrected) ==
  IF corrected = Throws THEN response ELSE OrElse(corrected, response)

\* correctSlackFormatting: corrected is the rewriting call's text, or Throws.
correctSlackFormatting(response, corrected) ==
  IF corrected = Throws THEN basicSlackFormatConversion(response)
  ELSE OrElse(corrected, response)

(* ------------------------------ the nodes ----------------------------- *)

\* A test that lets the bot's own messages through.
shouldProcessMessageOwnToo(event, userId) ==
  IF Truthy(event.bot_id) THEN FALSE
  ELSE IF Truthy(event.subtype) /\ event.subtype # "bot_message" THEN FALSE
  ELSE IF ~Truthy(getMessageText(event)) THEN FALSE
  ELSE Truthy(userId) /\ Includes(getMessageText(event), "<@" \o userId \o ">")

shouldProcessMessage(event, userId) ==
  IF Truthy(event.bot_id) THEN FALSE
  ELSE IF Truthy(event.subtype) /\ event.subtype # "bot_message" THEN FALSE
  ELSE IF event.user = userId THEN FALSE
  ELSE IF ~Truthy(getMessageText(event)) THEN FALSE
  ELSE Truthy(userId) /\ Includes(getMessageText(event), "<@" \o userId \o ">")

\* validateMessageNode: messageText?.substring throws on a text that is no string.
validateMessageNode(state, userId) ==
  IF getMessageText(state.slackEvent) = NumberValue
  THEN [errorOccurred |-> TRUE,
        error |-> "Validation failed: messageText?.substring is not a function"]
  ELSE [messageText |-> getMessageText(state.slackEvent),
        shouldProcess |-> shouldProcessMessage(state.slackEvent, userId),
        errorOccurred |-> FALSE]

\* An acknowledgment node that reports a failed reaction as a workflow error.
sendAcknowledgmentNodeFailing(reaction, cli) ==
  IF cli \/ reaction = "ok"
  THEN [acknowledgmentSent |-> TRUE]
  ELSE [acknowledgmentSent |-> FALSE, errorOccurred |-> TRUE,
        error |-> "Failed to send acknowledgment"]

\* sendAcknowledgmentNode: reaction is "ok" or "throws"; the emoji selection
\* catches its own failures.
sendAcknowledgmentNode(reaction, cli) ==
  IF cli \/ reaction = "ok"
  THEN [acknowledgmentSent |-> TRUE]
  ELSE [acknowledgmentSent |-> FALSE]

\* fetchContextNode
fetchContextNode(state, replies, cli) ==
  LET threadHistory == getThreadHistory(state.slackEvent, replies, cli)
      built == buildConversationContext(threadHistory)
  IN [threadHistory |-> threadHistory,
      conversationContext |->
        IF cli /\ built = << >> /\ Truthy(state.messageText)
        THEN <<[role |-> "user", content |-> Trim(StripUserMentions(state.messageText))]>>
        ELSE built]

\* validateSlackFormattingNode: corrected is what the rewriting call yields.
validateSlackFormattingNode(state, corrected) ==
  LET response == OrElse(state.claudeResponse, "")
  IN IF IsBlankResponse(response)
     THEN [errorOccurred |-> TRUE,
           error |-> "No response from Claude to validate formatting"]
     ELSE IF needsFormatting(response)
     THEN [needsSlackFormatting |-> TRUE,
           slackValidatedResponse |-> correctSlackFormatting(response, corrected)]
     ELSE [needsSlackFormatting |-> FALSE, slackValidatedResponse |-> response]

\* formatResponseNode
formatResponseNode(state) ==
  LET response == OrElse(state.slackValidatedResponse, OrElse(state.claudeResponse, ""))
  IN IF IsBlankResponse(response)
     THEN [errorOccurred |-> TRUE, error |-> "No response from Claude to format"]
     ELSE [formattedResponse |-> cleanResponse(addCoverageWarningIfNeeded(response))]

\* A sendResponseNode that clears the formatted response once it is posted.
sendResponseNodeClearing(post, cli) ==
  IF cli \/ post = "ok" THEN [formattedResponse |-> Null]
  ELSE IF post = "not_ok"
  THEN [errorOccurred |-> TRUE, error |-> "Slack API error: channel_not_found"]
  ELSE [errorOccurred |-> TRUE, error |-> "Failed to send response: request failed"]

\* sendResponseNode: post is "ok", "not_ok" or "throws".
sendResponseNode(post, cli) ==
  IF cli \/ post = "ok" THEN << >>
  ELSE IF post = "not_ok"
  THEN [errorOccurred |-> TRUE, error |-> "Slack API error: channel_not_found"]
  ELSE [errorOccurred |-> TRUE, error |-> "Failed to send response: request failed"]

\* The text sendResponseNode posts.
responseText(state) ==
  OrElse(state.formattedResponse, "Sorry, I encountered an issue processing your request.")

\* The text handleErrorNode posts.
errorText(state) ==
  "Sorry, I encountered an error: " \o OrElse(state.error, "An unexpected error occurred.")

(* ---------------------------- the graph edges ------------------------- *)

\* A router after validate that does not look at shouldProcess.
routeAfterValidateUngated(state) ==
  IF state.errorOccurred THEN "handleError" ELSE "acknowledge"

routeAfterValidate(state) ==
  IF state.errorOccurred THEN "handleError"
  ELSE IF ~state.shouldProcess THEN "__end__"
  ELSE "acknowledge"

routeAfterCallClaude(state) ==
  IF state.errorOccurred THEN "handleError" ELSE "validateSlackFormatting"

routeAfterValidateSlackFormatting(state) ==
  IF state.errorOccurred THEN "handleError" ELSE "formatResponse"

\* A graph whose edge out of sendResponse is conditional like the others.
NextNodeSendFailureToError(node, state) ==
  CASE node = "validate" -> routeAfterValidate(state)
    [] node = "acknowledge" -> "fetchContext"
    [] node = "fetchContext" -> "callClaude"
    [] node = "callClaude" -> routeAfterCallClaude(state)
    [] node = "validateSlackFormatting" -> routeAfterValidateSlackFormatting(state)
    [] node = "formatResponse" -> "sendResponse"
    [] node = "sendResponse" ->
         IF state.errorOccurred THEN "handleError" ELSE "__end__"
    [] node = "handleError" -> "__end__"

\* The node that follows `node` in createBaseWorkflow, given the merged state.
NextNode(node, state) ==
  CASE node = "validate" -> routeAfterValidate(state)
    [] node = "acknowledge" -> "fetchContext"
    [] node = "fetchContext" -> "callClaude"
    [] node = "callClaude" -> routeAfterCallClaude(state)
    [] node = "validateSlackFormatting" -> routeAfterValidateSlackFormatting(state)
    [] node = "formatResponse" -> "sendResponse"
    [] node = "sendResponse" -> "__end__"
    [] node = "handleError" -> "__end__"

\* LangGraph merges a node's partial update into the state: last value wins.
Merge(state, update) ==
  [f \in DOMAIN state |-> IF f \in DOMAIN update THEN update[f] ELSE state[f]]

\* The initial state processWithWorkflow passes to workflow.invoke.
initialState(event, bot, userId) ==
  [slackEvent |-> event, shouldProcess |-> FALSE, acknowledgmentSent |-> FALSE,
   threadHistory |-> << >>, conversationContext |-> << >>, messageText |-> Null,
   claudeResponse |-> Null, needsSlackFormatting |-> FALSE,
   slackValidatedResponse |-> Null, formattedResponse |-> Null, error |-> Null,
   errorOccurred |-> FALSE, botContext |-> [name |-> bot.name, userId |-> userId]]

(* ------------------------ the workflow invocation --------------------- *)

\* An external call a node made: the API, the credentials, how it ended.
Call(node, api, token, result) ==
  [node |-> node, api |-> api, token |-> token, result |-> result]

\* Whether a node's partial update reports an error.
SetsError(update) == "errorOccurred" \in DOMAIN update /\ update.errorOccurred

\* One node has run: its update is merged, and the edge out of it is taken.
\* trace records the nodes that ran and whether each returned errorOccurred.
NodeStep(r, node, update, calls) ==
  LET merged == Merge(wf[r].st, update)
  IN wf' = [wf EXCEPT ![r] =
       [@ EXCEPT !.st = merged,
                 !.trace = Append(@, [node |-> node, err |-> SetsError(update)]),
                 !.calls = @ \o calls,
                 !.pc = NextNode(node, merged)]]

\* processWithWorkflow up to workflow.invoke: auth.test with the bot's own token
\* resolves the user id put into botContext, or fails and leaves it undefined.
ResolveBotUserId(r, resolved) ==
  /\ wf[r].pc = "resolveUserId"
  /\ wf[r].event.text # NumberValue
  /\ LET userId == IF resolved THEN UserIdOfToken(wf[r].bot.slackToken) ELSE Undefined
     IN wf' = [wf EXCEPT ![r] =
          [pc |-> "validate", bot |-> wf[r].bot,
           st |-> initialState(wf[r].event, wf[r].bot, userId),
           trace |-> << >>, calls |-> << >>]]
  /\ UNCHANGED <<env, phase, registry, fallbackHandler, slackClient, botUserId,
                 isCLIMode, pendingAuthTests, binahAgent, processedMessages,
                 botInfoCache, reqs, posted>>

\* processWithWorkflow throws before the invocation when event.text is no
\* string: event.text?.substring of its first log is not a function.
InvocationThrows(r) ==
  /\ wf[r].pc = "resolveUserId"
  /\ wf[r].event.text = NumberValue
  /\ wf' = [wf EXCEPT ![r] = [@ EXCEPT !.pc = "catch"]]
  /\ UNCHANGED <<env, phase, registry, fallbackHandler, slackClient, botUserId,
                 isCLIMode, pendingAuthTests, binahAgent, processedMessages,
                 botInfoCache, reqs, posted>>

\* SlackHandlerImpl.handleMessage for an event that made processWithWorkflow
\* throw: past the bot_id and subtype tests, isAppMentioned calls a string
\* method of the text and the catch calls messageText?.substring, which throws
\* again, so the promise rejects.
handleMessage(event) ==
  IF Truthy(event.bot_id) THEN "returns"
  ELSE IF Truthy(event.subtype) /\ event.subtype # "bot_message" THEN "returns"
  ELSE IF event.text = NumberValue THEN "throws"
  ELSE "returns"

\* A catch of processWithWorkflow that lets a failure of the fallback escape.
CatchOutcomeUnguarded(hasFallback, fallback) ==
  IF hasFallback /\ fallback = "throws" THEN "rejected" ELSE "done"

\* The catch of processWithWorkflow: the fallback handler is awaited inside a
\* try of its own, whose catch only logs; without a handler it only logs.
CatchOutcome(hasFallback, fallback) ==
  IF hasFallback /\ fallback = "throws" THEN "done" ELSE "done"

\* The catch of processWithWorkflow runs, and the promise settles.
CatchFailure(r) ==
  /\ wf[r].pc = "catch"
  /\ LET fallback == IF fallbackHandler THEN handleMessage(wf[r].event) ELSE "absent"
     IN wf' = [wf EXCEPT ![r] =
          [pc |-> CatchOutcome(fallbackHandler, fallback), fallback |-> fallback]]
  /\ UNCHANGED <<env, phase, registry, fallbackHandler, slackClient, botUserId,
                 isCLIMode, pendingAuthTests, binahAgent, processedMessages,
                 botInfoCache, reqs, posted>>

Validate(r) ==
  /\ wf[r].pc = "validate"
  /\ NodeStep(r, "validate", validateMessageNode(wf[r].st, botUserId), << >>)
  /\ UNCHANGED <<env, phase, registry, fallbackHandler, slackClient, botUserId,
                 isCLIMode, pendingAuthTests, binahAgent, processedMessages,
                 botInfoCache, reqs, posted>>

Acknowledge(r, reaction) ==
  /\ wf[r].pc = "acknowledge"
  /\ NodeStep(r, "acknowledge", sendAcknowledgmentNode(reaction, isCLIMode),
              IF isCLIMode THEN << >>
              ELSE <<Call("acknowledge", "reactions.add", slackClient, reaction)>>)
  /\ UNCHANGED <<env, phase, registry, fallbackHandler, slackClient, botUserId,
                 isCLIMode, pendingAuthTests, binahAgent, processedMessages,
                 botInfoCache, reqs, posted>>

\* The fetchContext step, given what conversations.replies answers.
FetchContextWith(r, replies) ==
  /\ wf[r].pc = "fetchContext"
  /\ NodeStep(r, "fetchContext", fetchContextNode(wf[r].st, replies, isCLIMode),
              IF isCLIMode THEN << >>
              ELSE <<Call("fetchContext", "conversations.replies", slackClient,
                          IF replies.throws THEN "throws" ELSE "ok")>>)
  /\ UNCHANGED <<env, phase, registry, fallbackHandler, slackClient, botUserId,
                 isCLIMode, pendingAuthTests, binahAgent, processedMessages,
                 botInfoCache, reqs, posted>>

FetchContext(r, replies) ==
  /\ wf[r].pc = "fetchContext"
  /\ replies \in ThreadReplies(wf[r].st.slackEvent)
  /\ FetchContextWith(r, replies)

\* How a text answer of the reasoning API is logged.
TextClass(t) ==
  IF t = Throws THEN "throws" ELSE IF IsBlankResponse(t) THEN "blank" ELSE "text"

\* The callClaude node of the bina workflow.
CallClaude(r, first, followUp, debug) ==
  /\ wf[r].pc = "callClaude"
  /\ wf[r].bot.workflowFactory = "createBinaWorkflow"
  /\ NodeStep(r, "callClaude", callClaudeNode(sendMessage(first, followUp, debug)),
              <<Call("callClaude", "messages.create", "anthropic", TextClass(first))>>
              \o (IF first # Throws /\ IsBlankResponse(first)
                  THEN <<Call("callClaude", "messages.create", "anthropic", TextClass(followUp))>>
                  ELSE << >>))
  /\ UNCHANGED <<env, phase, registry, fallbackHandler, slackClient, botUserId,
                 isCLIMode, pendingAuthTests, binahAgent, processedMessages,
                 botInfoCache, reqs, posted>>

\* The callClaude node of the binah workflow: callDeepAgentNode.
CallDeepAgent(r, ready, stream, invoke) ==
  /\ wf[r].pc = "callClaude"
  /\ wf[r].bot.workflowFactory = "createBinahWorkflow"
  /\ binahAgent => ready
  /\ binahAgent' = ready
  /\ NodeStep(r, "callClaude", callDeepAgentNode(ready, stream, invoke),
              IF ~ready THEN << >>
              ELSE <<Call("callClaude", "agent.stream", "anthropic", TextClass(stream))>>
                   \o (IF stream = Throws
                       THEN <<Call("callClaude", "agent.invoke", "anthropic", TextClass(invoke))>>
                       ELSE << >>))
  /\ UNCHANGED <<env, phase, registry, fallbackHandler, slackClient, botUserId,
                 isCLIMode, pendingAuthTests, processedMessages, botInfoCache, reqs,
                 posted>>

ValidateSlackFormatting(r, corrected) ==
  /\ wf[r].pc = "validateSlackFormatting"
  /\ NodeStep(r, "validateSlackFormatting",
              validateSlackFormattingNode(wf[r].st, corrected),
              IF Truthy(wf[r].st.claudeResponse) /\ needsFormatting(wf[r].st.claudeResponse)
              THEN <<Call("validateSlackFormatting", "haiku.messages.create", "anthropic", TextClass(corrected))>>
              ELSE << >>)
  /\ UNCHANGED <<env, phase, registry, fallbackHandler, slackClient, botUserId,
                 isCLIMode, pendingAuthTests, binahAgent, processedMessages,
                 botInfoCache, reqs, posted>>

FormatResponse(r) ==
  /\ wf[r].pc = "formatResponse"
  /\ NodeStep(r, "formatResponse", formatResponseNode(wf[r].st), << >>)
  /\ UNCHANGED <<env, phase, registry, fallbackHandler, slackClient, botUserId,
                 isCLIMode, pendingAuthTests, binahAgent, processedMessages,
                 botInfoCache, reqs, posted>>

\* Slack has one more message in the thread of the invocation's event.
Posted(r) == [posted EXCEPT ![messageId(wf[r].st.slackEvent)] = @ + 1]

SendResponse(r, post) ==
  /\ wf[r].pc = "sendResponse"
  /\ NodeStep(r, "sendResponse", sendResponseNode(post, isCLIMode),
              IF isCLIMode THEN << >>
              ELSE <<Call("sendResponse", "chat.postMessage", slackClient, post)>>)
  /\ posted' = IF ~isCLIMode /\ post = "ok" THEN Posted(r) ELSE posted
  /\ UNCHANGED <<env, phase, registry, fallbackHandler, slackClient, botUserId,
                 isCLIMode, pendingAuthTests, binahAgent, processedMessages,
                 botInfoCache, reqs>>

\* A handleErrorNode that reports a failed post as an error of its own.
handleErrorNodeReporting(post) ==
  IF post = "ok" THEN << >>
  ELSE [errorOccurred |-> TRUE, error |-> "Error handler failed"]

\* A handleErrorNode that clears the error once it has reported it.
handleErrorNodeClearing(post) == [errorOccurred |-> FALSE, error |-> Null]

\* handleErrorNode: it returns {} after the post and from its catch alike.
handleErrorNode(post) == << >>

\* handleErrorNode posts the error text and returns {} whatever happens.
HandleError(r, post) ==
  /\ wf[r].pc = "handleError"
  /\ NodeStep(r, "handleError", handleErrorNode(post), <<Call("handleError", "chat.postMessage", slackClient, post)>>)
  /\ posted' = IF post = "ok" THEN Posted(r) ELSE posted
  /\ UNCHANGED <<env, phase, registry, fallbackHandler, slackClient, botUserId,
                 isCLIMode, pendingAuthTests, binahAgent, processedMessages,
                 botInfoCache, reqs>>

\* workflow.invoke resolves; processWithWorkflow logs the final state and
\* returns, and the state is dropped.
Complete(r) ==
  /\ wf[r].pc = "__end__"
  /\ wf' = [wf EXCEPT ![r] = [pc |-> "done"]]
  /\ UNCHANGED <<env, phase, registry, fallbackHandler, slackClient, botUserId,
                 isCLIMode, pendingAuthTests, binahAgent, processedMessages,
                 botInfoCache, reqs, posted>>

PostOutcomes == {"ok", "not_ok", "throws"}

Next ==
  \/ Initialize
  \/ \E t \in pendingAuthTests : AuthTestResolves(t)
  \/ \E t \in pendingAuthTests : AuthTestRejects(t)
  \/ \E r \in Requests, b \in Bodies : PostSharedEndpoint(r, b)
  \/ \E r \in Requests, n \in BotInfoNames : BotsInfoSucceeds(r, n)
  \/ \E r \in Requests : BotsInfoFails(r)
  \/ \E r \in Requests : HandleRouted(r)
  \/ \E r \in Requests, n \in PathNames, b \in Bodies : PostBotEndpoint(r, n, b)
  \/ \E r \in Requests, ok \in BOOLEAN : ResolveBotUserId(r, ok)
  \/ \E r \in Requests : InvocationThrows(r)
  \/ \E r \in Requests : CatchFailure(r)
  \/ \E r \in Requests : Validate(r)
  \/ \E r \in Requests, o \in {"ok", "throws"} : Acknowledge(r, o)
  \/ \E r \in Requests, rep \in UNION {ThreadReplies(e) : e \in MessageEvents} :
        FetchContext(r, rep)
  \/ \E r \in Requests, t1 \in ClaudeTexts \cup {Throws},
         t2 \in FollowUpTexts \cup {Throws}, d \in BOOLEAN : CallClaude(r, t1, t2, d)
  \/ \E r \in Requests, ready \in BOOLEAN, t1 \in DeepAgentTexts \cup {Throws},
         t2 \in DeepAgentTexts \cup {Throws} : CallDeepAgent(r, ready, t1, t2)
  \/ \E r \in Requests, t \in HaikuTexts \cup {Throws} : ValidateSlackFormatting(r, t)
  \/ \E r \in Requests : FormatResponse(r)
  \/ \E r \in Requests, o \in PostOutcomes : SendResponse(r, o)
  \/ \E r \in Requests, o \in PostOutcomes : HandleError(r, o)
  \/ \E r \in Requests : Complete(r)

Spec == Init /\ [][Next]_vars

(* ----------------------- observing an invocation ---------------------- *)

\* The requests whose workflow invocation has a state.
Started ==
  {r \in Requests :
     wf[r].pc \notin {"none", "done", "resolveUserId", "catch", "rejected"}}

Ended(r) == wf[r].pc = "__end__"

Ran(r, node) == \E i \in 1..Len(wf[r].trace) : wf[r].trace[i].node = node

\* The positions of the trace at which `node` ran.
RunsOf(r, node) == {i \in 1..Len(wf[r].trace) : wf[r].trace[i].node = node}

\* The node that ran after the i-th one, or the one the edge has selected.
Follower(r, i) ==
  IF i < Len(wf[r].trace) THEN wf[r].trace[i + 1].node ELSE wf[r].pc

\* The external calls `node` made, in order.
CallsOf(r, node) ==
  LET ByNode(c) == c.node = node IN SelectSeq(wf[r].calls, ByNode)

\* Some call of `node` ended with `result`.
CallEnded(r, node, result) ==
  \E i \in 1..Len(wf[r].calls) :
    wf[r].calls[i].node = node /\ wf[r].calls[i].result = result

\* The chat.postMessage calls of the invocation.
Posts(r) ==
  LET IsPost(c) == c.api = "chat.postMessage" IN SelectSeq(wf[r].calls, IsPost)

\* validate ran without error and let the message through.
PassedGate(r) ==
  /\ Len(wf[r].trace) >= 1
  /\ wf[r].trace[1].node = "validate"
  /\ ~wf[r].trace[1].err
  /\ wf[r].st.shouldProcess

\* sendResponse ran and returned without an error.
DeliveredOk(r) == \E i \in RunsOf(r, "sendResponse") : ~wf[r].trace[i].err

(* ------------------------------- claims ------------------------------- *)

\* C1: an invocation that passed validate's shouldProcess gate ends in exactly
\* one of two ways: handleError ran, or sendResponse completed successfully.
C1_TerminalOutcomes ==
  \A r \in Started :
    (Ended(r) /\ PassedGate(r)) =>
      /\ Ran(r, "handleError") \/ DeliveredOk(r)
      /\ ~(Ran(r, "handleError") /\ DeliveredOk(r))

\* C2: once a node has returned errorOccurred = true, the only node that
\* executes afterwards is handleError.
C2_OnlyHandleErrorAfterError ==
  \A r \in Started :
    \A i, j \in 1..Len(wf[r].trace) :
      (i < j /\ wf[r].trace[i].err) => wf[r].trace[j].node = "handleError"

\* C3: after validate the workflow goes to handleError on an error; otherwise,
\* with shouldProcess = false, it ends at once with no other node run, no
\* external call made and nothing posted; otherwise acknowledge is next.
C3_ThreeWayBranch ==
  \A r \in Started :
    Len(wf[r].trace) >= 1 =>
      /\ wf[r].trace[1].node = "validate"
      /\ wf[r].trace[1].err => Follower(r, 1) = "handleError"
      /\ (~wf[r].trace[1].err /\ ~wf[r].st.shouldProcess) =>
           /\ Len(wf[r].trace) = 1
           /\ Ended(r)
           /\ wf[r].calls = << >>
           /\ posted[messageId(wf[r].st.slackEvent)] = 0
      /\ (~wf[r].trace[1].err /\ wf[r].st.shouldProcess) =>
           Follower(r, 1) = "acknowledge"

\* An invocation that validate ended silently.
C3_Witness ==
  \E r \in Started :
    /\ Ended(r)
    /\ wf[r].trace = <<[node |-> "validate", err |-> FALSE]>>
    /\ ~wf[r].st.shouldProcess

\* The requests answered 200 for a message event that carries key k.
Carrying(k) ==
  {r \in Requests :
     reqs[r].status = "handled" /\ reqs[r].code = 200 /\ reqs[r].key = k}

\* C4: of the handled message events that carry one dedup key, exactly one is
\* dispatched, the others are answered 200 without a dispatch, and at most
\* one message is posted for the key.
C4_DispatchedOncePerKey ==
  \A k \in MessageIds :
    /\ Carrying(k) # {} =>
         Cardinality({r \in Carrying(k) : reqs[r].dispatched}) = 1
    /\ Carrying(k) # {} =>
         \E i \in 1..Len(processedMessages) : processedMessages[i] = k
    /\ posted[k] <= 1

\* Two requests carried the same key; one was dispatched, the other dropped.
C4_Witness ==
  \E r1, r2 \in Requests :
    /\ r1 # r2
    /\ reqs[r1].status = "handled" /\ reqs[r2].status = "handled"
    /\ reqs[r1].key \in MessageIds /\ reqs[r1].key = reqs[r2].key
    /\ reqs[r1].code = 200 /\ reqs[r2].code = 200
    /\ reqs[r1].dispatched /\ ~reqs[r2].dispatched

\* C5: with two or more bots registered, an invocation dispatched for a bot
\* makes every Slack call with that bot's token, and validate decides the
\* mention against that bot's own resolved user id, the one passed in
\* botContext.
C5_OwnIdentity ==
  \A r \in Started :
    Len(listBots(registry)) >= 2 =>
    /\ \A i \in 1..Len(wf[r].calls) :
         wf[r].calls[i].token # "anthropic" =>
           wf[r].calls[i].token = wf[r].bot.slackToken
    /\ (Len(wf[r].trace) >= 1 /\ ~wf[r].trace[1].err
          /\ wf[r].st.botContext.userId # Undefined) =>
         wf[r].st.shouldProcess =
           shouldProcessMessage(wf[r].st.slackEvent, wf[r].st.botContext.userId)

\* C6: when the post of sendResponse throws or returns ok = false, the node
\* sets errorOccurred and error, and handleError is the next node.
C6_SendFailureRoutesToError ==
  \A r \in Started :
    \A i \in RunsOf(r, "sendResponse") :
      (CallEnded(r, "sendResponse", "not_ok") \/ CallEnded(r, "sendResponse", "throws")) =>
        /\ wf[r].trace[i].err
        /\ Follower(r, i) = "handleError"

\* The first text the reasoning service produced for callClaude ended as `result`.
ReasoningEnded(r, result) ==
  /\ Len(CallsOf(r, "callClaude")) >= 1
  /\ CallsOf(r, "callClaude")[1].result = result

\* C7: when the reasoning call yields an empty or whitespace-only text,
\* callClaude sets errorOccurred, handleError is next, none of
\* validateSlackFormatting, formatResponse and sendResponse runs, and the
\* finished invocation has made exactly one post, that of handleError.
C7_BlankReasoningIsError ==
  \A r \in Started :
    ReasoningEnded(r, "blank") =>
      /\ \A i \in RunsOf(r, "callClaude") :
           wf[r].trace[i].err /\ Follower(r, i) = "handleError"
      /\ ~Ran(r, "validateSlackFormatting")
      /\ ~Ran(r, "formatResponse")
      /\ ~Ran(r, "sendResponse")
      /\ Ended(r) =>
           Len(Posts(r)) = 1 /\ Posts(r)[1].node = "handleError"

\* C8: when the messages.create call of the reasoning service throws,
\* callClaude records errorOccurred with an error message and handleError is
\* next; sendResponse does not deliver a failure text.
C8_ReasoningFailureIsError ==
  \A r \in Started :
    (ReasoningEnded(r, "throws") /\ CallsOf(r, "callClaude")[1].api = "messages.create") =>
      /\ \A i \in RunsOf(r, "callClaude") :
           wf[r].trace[i].err /\ Follower(r, i) = "handleError"
      /\ ~Ran(r, "sendResponse")

\* C9: when conversations.replies fails, fetchContext sets errorOccurred and
\* error, handleError is next, and callClaude does not run.
C9_FetchFailureIsError ==
  \A r \in Started :
    CallEnded(r, "fetchContext", "throws") =>
      /\ \A i \in RunsOf(r, "fetchContext") :
           wf[r].trace[i].err /\ Follower(r, i) = "handleError"
      /\ ~Ran(r, "callClaude")

C11_HandleErrorPostsOnce ==
  \A r \in Started :
    \A i \in RunsOf(r, "handleError") :
      /\ ~wf[r].trace[i].err
      /\ i = Len(wf[r].trace)
      /\ Ended(r)
      /\ Cardinality(RunsOf(r, "handleError")) = 1
      /\ Len(CallsOf(r, "handleError")) = 1
      /\ wf[r].calls[Len(wf[r].calls)] =
           Call("handleError", "chat.postMessage", wf[r].calls[Len(wf[r].calls)].token,
                wf[r].calls[Len(wf[r].calls)].result)

\* handleError ran, its post threw, and the invocation has ended.
C11_Witness ==
  \E r \in Started :
    /\ Ran(r, "handleError")
    /\ CallEnded(r, "handleError", "throws")
    /\ Ended(r)

\* C12: the promise of processWithWorkflow never rejects, whether the
\* invocation ran to its end, or threw with no fallback handler, or threw and
\* the fallback handler threw as well.
C12_DispatchNeverRejects == \A r \in Requests : wf[r].pc # "rejected"

\* The invocation threw, the fallback handler threw too, and the promise
\* was fulfilled.
C12_Witness ==
  \E r \in Requests :
    /\ wf[r].pc = "done"
    /\ "fallback" \in DOMAIN wf[r]
    /\ wf[r].fallback = "throws"

\* C13: whenever a workflow has been dispatched for a request, whatever the
\* progress of that workflow, the request has already been answered 200 and
\* its dedup key is in the processed set.
C13_MarkedAndAnsweredBeforeWorkflow ==
  \A r \in Requests :
    wf[r].pc # "none" =>
      /\ reqs[r].status = "handled"
      /\ reqs[r].code = 200
      /\ reqs[r].dispatched
      /\ \E i \in 1..Len(processedMessages) : processedMessages[i] = reqs[r].key

\* The request is answered and its key marked while its workflow has not
\* yet made its first step.
C13_Witness ==
  \E r \in Requests :
    /\ wf[r].pc = "resolveUserId"
    /\ reqs[r].status = "handled"
    /\ reqs[r].code = 200
    /\ \E i \in 1..Len(processedMessages) : processedMessages[i] = reqs[r].key

(* ------------------- the dedup set under many messages ---------------- *)

\* The number of distinct messages the dedup specification lets arrive.
MaxInserts == 1100

\* A server that is up and has seen no message yet.
DedupInit ==
  /\ env = EnvLegacy
  /\ phase = "serving"
  /\ registry = RegisterAll(<< >>, discoverAndRegisterBots(EnvLegacy))
  /\ fallbackHandler = TRUE
  /\ slackClient = EnvGet(EnvLegacy, "SLACK_BOT_TOKEN")
  /\ botUserId = ""
  /\ isCLIMode = FALSE
  /\ pendingAuthTests = {}
  /\ binahAgent = FALSE
  /\ processedMessages = << >>
  /\ botInfoCache = [b \in {"B1"} |-> Null]
  /\ reqs = [r \in Requests |-> IdleRequest]
  /\ wf = [r \in Requests |-> NoWorkflow]
  /\ posted = [k \in MessageIds |-> 0]

\* The key of the next message nobody has sent before: messages are
\* numbered in order of arrival, and the number stands for channel-ts.
NextFreshKey ==
  IF processedMessages = << >> THEN 1
  ELSE processedMessages[Len(processedMessages)] + 1

\* handleSlackEvent on a message callback whose key is not in the set:
\* add(messageId) and the clean-up. (A key that is in the set returns
\* before add and leaves the set as it is.)
DedupInsert ==
  /\ NextFreshKey <= MaxInserts
  /\ processedMessages' = MarkProcessed(processedMessages, NextFreshKey)
  /\ UNCHANGED <<env, phase, registry, fallbackHandler, slackClient, botUserId,
                 isCLIMode, pendingAuthTests, binahAgent, botInfoCache, reqs, wf,
                 posted>>

DedupNext == DedupInsert

DedupSpec == DedupInit /\ [][DedupNext]_vars

Routed == {r \in Requests : reqs[r].status = "routed"}

C16_RoutedToRegisteredBot ==
  \A r \in Routed :
    (Len(registry) > 0 /\ IsMessageCallback(reqs[r].body)) =>
      hasBot(registry, reqs[r].botName)

(* ------------------------ answers of handleSlackEvent ----------------- *)

\* C17: a message event posted to /slack/events/:botName whose lowercased
\* name is not in the registry is answered 404 (not the 500 of the outer
\* catch), and that step inserts no dedup key and dispatches no workflow.
C17_UnknownBotIsNotFound ==
  [][\A r \in Requests : \A pathName \in PathNames : \A body \in Bodies :
       ( /\ reqs[r].status = "idle"
         /\ reqs'[r] # reqs[r]
         /\ IsMessageCallback(body)
         /\ ~hasBot(registry, ToLowerCase(pathName))
         /\ PostBotEndpoint(r, pathName, body) )
       => /\ reqs'[r].status = "handled"
          /\ reqs'[r].code = 404
          /\ ~reqs'[r].dispatched
          /\ processedMessages' = processedMessages
          /\ wf' = wf
    ]_vars

\* A message for an unregistered name has been answered 404; its key is not
\* in the dedup set and it has no workflow.
C17_Witness ==
  \E r \in Requests :
    /\ reqs[r].status = "handled"
    /\ reqs[r].botName = "ghost"
    /\ reqs[r].key # Null
    /\ reqs[r].code = 404
    /\ wf[r].pc = "none"
    /\ \A i \in 1..Len(processedMessages) : processedMessages[i] # reqs[r].key

Handshakes == {body \in Bodies : body.type = "url_verification"}

\* C18: a url_verification request, on the per-bot endpoint under any name
\* or on the shared endpoint once routed, is answered 200 with the
\* challenge of its own body, and that step inserts no dedup key,
\* dispatches no workflow and leaves the registry as it is.
C18_HandshakeAnswersChallenge ==
  [][\A r \in Requests : \A body \in Handshakes :
       ( /\ reqs'[r] # reqs[r]
         /\ \/ /\ reqs[r].status = "idle"
               /\ \E pathName \in PathNames : PostBotEndpoint(r, pathName, body)
            \/ /\ reqs[r].status = "routed"
               /\ reqs[r].body = body
               /\ HandleRouted(r) )
       => /\ reqs'[r].status = "handled"
          /\ reqs'[r].code = 200
          /\ reqs'[r].payload = body.challenge
          /\ ~reqs'[r].dispatched
          /\ processedMessages' = processedMessages
          /\ wf' = wf
          /\ registry' = registry
    ]_vars

\* A handshake for an unregistered name has been answered with its
\* challenge.
C18_Witness ==
  \E r \in Requests : \E body \in Handshakes :
    /\ reqs[r].status = "handled"
    /\ reqs[r].type = "url_verification"
    /\ ~hasBot(registry, reqs[r].botName)
    /\ reqs[r].code = 200
    /\ reqs[r].payload = body.challenge

(* ------------------------- progress of the routing -------------------- *)

\* What the event loop guarantees to the shared route: its continuation,
\* handleSlackEvent, runs once detectBotFromMessage has settled. Nothing
\* bounds the time bots.info takes: the WebClient is built with its token
\* only and the await has no timeout, so no fairness is stated for Slack's
\* answers.
FairSpec ==
  /\ Spec
  /\ \A r \in Requests : WF_vars(HandleRouted(r))

\* C19 as stated: a request of the shared endpoint that waits for the
\* identity lookup is always eventually given a bot name and handled,
\* whether the lookup answers, fails or never returns.
C19_LookupEventuallyHandled ==
  \A r \in Requests : (reqs[r].status = "lookup") ~> (reqs[r].status = "handled")

(* --------------------- the registry under any calls ------------------- *)

RegistryNames == {"bina", "binah", "helper"}
RegistryTokens == {"xoxb-1", "xoxb-2"}

\* The configurations passed to registerBot. The description tells a first
\* registration of a name from a later one.
RegistryConfigs ==
  [name : RegistryNames, slackToken : RegistryTokens, signingSecret : {"sec"},
   workflowFactory : {"createBinaWorkflow"}, description : {"first", "again"}]

\* A process that has registered nothing yet.
RegistryInit ==
  /\ env = EnvEmpty
  /\ phase = "init"
  /\ registry = << >>
  /\ fallbackHandler = FALSE
  /\ slackClient = Undefined
  /\ botUserId = ""
  /\ isCLIMode = FALSE
  /\ pendingAuthTests = {}
  /\ binahAgent = FALSE
  /\ processedMessages = << >>
  /\ botInfoCache = [b \in {"B1"} |-> Null]
  /\ reqs = [r \in Requests |-> IdleRequest]
  /\ wf = [r \in Requests |-> NoWorkflow]
  /\ posted = [k \in MessageIds |-> 0]

\* botRegistry.registerBot(config)
RegisterBot(config) ==
  /\ (config.description = "again") = hasBot(registry, config.name)
  /\ registry' = registerBot(registry, config)
  /\ UNCHANGED <<env, phase, fallbackHandler, slackClient, botUserId, isCLIMode,
                 pendingAuthTests, binahAgent, processedMessages, botInfoCache,
                 reqs, wf, posted>>

RegistryNext == \E config \in RegistryConfigs : RegisterBot(config)

RegistrySpec == RegistryInit /\ [][RegistryNext]_vars

\* C20: after registerBot(config) getBot(config.name) is config; when the
\* name was present, getBotCount and listBots are as before and every other
\* name keeps its configuration; when it was not, the name is appended to
\* listBots; no name is ever listed twice and none disappears.
C20_LastWriteWinsInPlace ==
  [][\A config \in RegistryConfigs :
       RegisterBot(config) =>
         /\ hasBot(registry', config.name)
         /\ getBot(registry', config.name) = config
         /\ \A i, j \in 1..Len(registry') :
              registry'[i].name = registry'[j].name => i = j
         /\ \A i \in 1..Len(registry) :
              /\ hasBot(registry', registry[i].name)
              /\ listBots(registry')[i] = listBots(registry)[i]
              /\ registry[i].name # config.name => registry'[i] = registry[i]
         /\ IF hasBot(registry, config.name)
            THEN /\ Len(registry') = Len(registry)
                 /\ listBots(registry') = listBots(registry)
            ELSE listBots(registry') = Append(listBots(registry), config.name)
    ]_vars

\* Three names are registered and the one registered first has been
\* registered again: it is still listed first, with its later configuration.
C20_Witness ==
  /\ Len(registry) = 3
  /\ registry[1].description = "again"
  /\ registry[3].description = "first"

(* ------------------- discovery over any configuration ----------------- *)

\* The variables a configuration may hold, in the order of process.env.
DiscoveryPairs ==
  << <<"BINA_SLACK_TOKEN", "xoxb-bina">>, <<"BINA_SIGNING_SECRET", "sec-bina">>,
     <<"BINAH_SLACK_TOKEN", "xoxb-binah">>, <<"BINAH_SIGNING_SECRET", "sec-binah">>,
     <<"Helper_SLACK_TOKEN", "xoxb-helper">>, <<"Helper_SIGNING_SECRET", "sec-helper">>,
     <<"SLACK_BOT_TOKEN", "xoxb-legacy">>, <<"SLACK_SIGNING_SECRET", "sec-legacy">> >>

DiscoveryKeys == {DiscoveryPairs[i][1] : i \in 1..Len(DiscoveryPairs)}

\* Every configuration holding some of these variables.
DiscoveryEnvs ==
  {SelectSeq(DiscoveryPairs, LAMBDA p : p[1] \in keys) : keys \in SUBSET DiscoveryKeys}

\* A process about to start under one of these configurations.
DiscoveryInit ==
  /\ env \in DiscoveryEnvs
  /\ phase = "init"
  /\ registry = << >>
  /\ fallbackHandler = FALSE
  /\ slackClient = Undefined
  /\ botUserId = ""
  /\ isCLIMode = FALSE
  /\ pendingAuthTests = {}
  /\ binahAgent = FALSE
  /\ processedMessages = << >>
  /\ botInfoCache = [b \in {"B1"} |-> Null]
  /\ reqs = [r \in Requests |-> IdleRequest]
  /\ wf = [r \in Requests |-> NoWorkflow]
  /\ posted = [k \in MessageIds |-> 0]

DiscoveryNext == Initialize

DiscoverySpec == DiscoveryInit /\ [][DiscoveryNext]_vars

\* The NAMEs a configuration may give credentials under.
CredentialNames == {"BINA", "BINAH", "Helper"}

\* The NAMEs for which the configuration holds both NAME_SLACK_TOKEN and
\* NAME_SIGNING_SECRET.
CompletePairs(e) ==
  {n \in CredentialNames :
     /\ Truthy(EnvGet(e, n \o "_SLACK_TOKEN"))
     /\ Truthy(EnvGet(e, n \o "_SIGNING_SECRET"))}

RegisteredNames == {registry[i].name : i \in 1..Len(registry)}

\* C21 as stated: once discovery has run over a configuration with N
\* complete bot-specific pairs, N > 0, the registry holds exactly N bots,
\* one under the lowercase of each NAME, and none for a NAME that lacks
\* its secret.
C21_DiscoveryRegistersEveryPair ==
  (phase # "init" /\ CompletePairs(env) # {}) =>
    /\ phase = "serving"
    /\ Len(registry) = Cardinality(CompletePairs(env))
    /\ RegisteredNames = {ToLowerCase(n) : n \in CompletePairs(env)}

\* C22 as stated: once discovery has run over a configuration with no
\* complete bot-specific pair and with the legacy pair, the registry holds
\* exactly one bot, named 'bina', whether or not some NAME_SLACK_TOKEN is
\* present without its secret.
C22_LegacyPairRegistersBina ==
  (phase # "init" /\ CompletePairs(env) = {} /\ HasLegacyConfig(env)) =>
    /\ phase = "serving"
    /\ Len(registry) = 1
    /\ registry[1].name = "bina"

(* ------------------ the text functions under any answer --------------- *)

\* The number of pieces an answer of the reasoning service is made of.
MaxTokens == 3

GenesisAnchor ==
  "<a href=\"https://example.org/Genesis 3:4\" target=\"_blank\">Genesis 3:4</a>"

SefariaAnchor ==
  "<a href=\"https://www.sefaria.org/Genesis 3:4\" target=\"_blank\">Genesis 3:4</a>"

\* The pieces: bold markers, a letter, blanks, a header prefix, a phrase that
\* triggers the coverage banner, a Slack link and an HTML link.
TextTokens ==
  {"***", "**", "a", " ", "\n", "# ", "few sources", "<https://u|t>",
   "<a href='u'>t</a>"}

RECURSIVE Concat(_)
Concat(pieces) ==
  IF pieces = << >> THEN "" ELSE Head(pieces) \o Concat(Tail(pieces))

\* What the first messages.create call may yield under TextSpec: up to
\* MaxTokens pieces, or one of the two links to a verse.
Texts ==
  {Concat(pieces) : pieces \in UNION {[1..n -> TextTokens] : n \in 0..MaxTokens}}
  \cup {GenesisAnchor, SefariaAnchor}

\* A legacy single-bot server that has answered the request carrying event e
\* and dispatched the workflow for it.
LegacyServerDispatched(e) ==
  /\ env = EnvLegacy
  /\ phase = "serving"
  /\ registry = RegisterAll(<< >>, discoverAndRegisterBots(EnvLegacy))
  /\ fallbackHandler = TRUE
  /\ slackClient = EnvGet(EnvLegacy, "SLACK_BOT_TOKEN")
  /\ botUserId = UserIdOfToken(EnvGet(EnvLegacy, "SLACK_BOT_TOKEN"))
  /\ isCLIMode = FALSE
  /\ pendingAuthTests = {}
  /\ binahAgent = FALSE
  /\ processedMessages = <<messageId(e)>>
  /\ botInfoCache = [b \in {"B1"} |-> Null]
  /\ reqs = [r \in Requests |->
               IF r = 1
               THEN [status |-> "handled", botName |-> "bina", type |-> "event_callback",
                     key |-> messageId(e), code |-> 200, payload |-> "OK",
                     dispatched |-> TRUE]
               ELSE IdleRequest]
  /\ wf = [r \in Requests |->
             IF r = 1
             THEN [pc |-> "resolveUserId", bot |-> getBot(registry, "bina"),
                   event |-> e]
             ELSE NoWorkflow]
  /\ posted = [k \in MessageIds |-> 0]

\* That server, having dispatched the workflow for one mention of its bot.
TextInit == LegacyServerDispatched(MentionBina)

\* The workflow of that request up to formatResponse, with any of Texts as
\* the answer of the reasoning service and any outcome of the rewriting call.
TextNext ==
  \/ ResolveBotUserId(1, TRUE)
  \/ Validate(1)
  \/ Acknowledge(1, "ok")
  \/ \E rep \in ThreadReplies(MentionBina) : FetchContext(1, rep)
  \/ \E t \in Texts : CallClaude(1, t, "", FALSE)
  \/ \E t \in HaikuTexts \cup {Throws} : ValidateSlackFormatting(1, t)
  \/ FormatResponse(1)

TextSpec == TextInit /\ [][TextNext]_vars

\* The invocations in which validateSlackFormatting has run.
Normalized == {r \in Started : Ran(r, "validateSlackFormatting")}

\* Those in which the rewriting call failed, so that the fallback ran.
FellBack ==
  {r \in Normalized : CallEnded(r, "validateSlackFormatting", "throws")}

C24_FallbackIsIdempotent ==
  \A r \in FellBack :
    basicSlackFormatConversion(wf[r].st.slackValidatedResponse)
      = wf[r].st.slackValidatedResponse

\* C25 as stated: no detector matches the output of the fallback.
C25_FallbackLeavesNoDefect ==
  \A r \in FellBack :
    LET out == wf[r].st.slackValidatedResponse
    IN ~hasHtmlLinks(out) /\ ~hasMarkdownHeaders(out) /\ ~hasDoubleAsterisks(out)

\* C26 as stated: the fallback turns the link to "Genesis 3:4" into a
\* Slack link whose target reads Genesis.3.4.
C26_VerseReferenceIsDotted ==
  \A r \in FellBack :
    /\ wf[r].st.claudeResponse = GenesisAnchor =>
         wf[r].st.slackValidatedResponse
           = "<https://example.org/Genesis.3.4|Genesis 3:4>"
    /\ wf[r].st.claudeResponse = SefariaAnchor =>
         wf[r].st.slackValidatedResponse
           = "<https://www.sefaria.org/Genesis.3.4|Genesis 3:4>"

C28_PostPassIsIdempotent ==
  \A r \in Started :
    \A i \in RunsOf(r, "formatResponse") :
      ~wf[r].trace[i].err =>
        cleanResponse(addCoverageWarningIfNeeded(wf[r].st.formattedResponse))
          = wf[r].st.formattedResponse

(* ------------------- the context of a longer thread ------------------- *)

\* The number of messages a thread holds before the triggering one.
MaxEarlier == 5

\* String.prototype.repeat
RECURSIVE Repeat(_, _)
Repeat(s, n) ==
  IF n = 0 THEN ""
  ELSE IF n % 2 = 1 THEN s \o Repeat(s, n - 1)
  ELSE LET half == Repeat(s, n \div 2) IN half \o half

\* Raw texts of an earlier message: plain, empty, blank, exactly at the
\* limit, one character beyond it, beyond it only with its surrounding
\* blanks, and beyond it only with its leading mention.
ThreadTexts ==
  {"an earlier question", "", "   ",
   Repeat("a", MaxContentLength),
   Repeat("a", MaxContentLength + 1),
   " " \o Repeat("a", MaxContentLength) \o " ",
   "<@UBINA> " \o Repeat("a", MaxContentLength - 5)}

\* The i-th message of a thread as conversations.replies reports it.
EarlierMessage(i, text, bot) ==
  [user |-> IF bot = Undefined THEN "U2" ELSE "UBINA", text |-> text,
   ts |-> "0." \o Char("12345", i), thread_ts |-> "0.1", bot_id |-> bot]

\* A thread of n earlier messages, the last of them with the given text and
\* author, followed by the triggering message.
ThreadOf(e, n, text, bot) ==
  [i \in 1..n |-> IF i < n THEN EarlierMessage(i, "an earlier question", Undefined)
                  ELSE EarlierMessage(i, text, bot)]
    \o <<AsMessage(e)>>

\* conversations.replies with limit: 5 answers with at most ThreadLimit
\* messages of the thread: its first or its last ones.
ThreadWindows(e) ==
  ThreadReplies(e)
  \cup {[throws |-> FALSE, messages |-> w] :
          w \in UNION {LET t == ThreadOf(e, n, text, bot)
                           k == IF Len(t) < ThreadLimit THEN Len(t) ELSE ThreadLimit
                       IN {SubSeq(t, 1, k), SubSeq(t, Len(t) - k + 1, Len(t))} :
                         n \in 0..MaxEarlier, text \in ThreadTexts,
                         bot \in {Undefined, "B1"}}}

\* The workflow of the mention of TextInit up to the first call of the
\* reasoning service, over any of these threads.
ContextNext ==
  \/ ResolveBotUserId(1, TRUE)
  \/ Validate(1)
  \/ Acknowledge(1, "ok")
  \/ \E rep \in ThreadWindows(MentionBina) : FetchContextWith(1, rep)
  \/ \E t \in HaikuTexts : CallClaude(1, t, "", FALSE)

ContextSpec == TextInit /\ [][ContextNext]_vars

\* The invocations in which fetchContext has run.
Fetched == {r \in Started : Ran(r, "fetchContext")}

\* C29 as stated: neither the thread history nor the conversation context
\* ever holds more than ThreadLimit messages.
C29_AtMostFiveMessages ==
  \A r \in Fetched :
    /\ Len(wf[r].st.threadHistory) <= ThreadLimit
    /\ Len(wf[r].st.conversationContext) <= ThreadLimit

\* The content built for the i-th message of the thread history of r; the
\* messages whose text is blank build none.
BuiltFor(r, i) ==
  LET kept == {j \in 1..i : Len(Trim(wf[r].st.threadHistory[j].text)) > 0}
  IN wf[r].st.conversationContext[Cardinality(kept)].content

TruncationMarker == "..."

IsTruncated(content) ==
  /\ Len(content) = MaxContentLength + Len(TruncationMarker)
  /\ SubSeq(content, MaxContentLength + 1, Len(content)) = TruncationMarker

\* C30 as stated: a message whose raw text is longer than MaxContentLength
\* has a content of exactly MaxContentLength + 3 characters that ends with
\* the marker, and no content is longer than that.
C30_LongRawTextIsTruncated ==
  \A r \in Fetched :
    /\ \A i \in 1..Len(wf[r].st.threadHistory) :
         LET text == wf[r].st.threadHistory[i].text
         IN (Len(text) > MaxContentLength /\ Len(Trim(text)) > 0) =>
              IsTruncated(BuiltFor(r, i))
    /\ \A k \in 1..Len(wf[r].st.conversationContext) :
         Len(wf[r].st.conversationContext[k].content)
           <= MaxContentLength + Len(TruncationMarker)

\* C30, amended: a message whose text is longer than MaxContentLength once
\* its mentions and link markup are stripped and it is trimmed has a content
\* of exactly MaxContentLength + 3 characters that ends with the marker, and
\* no content is longer than that.
C30_LongCleanedTextIsTruncated ==
  \A r \in Fetched :
    /\ \A i \in 1..Len(wf[r].st.threadHistory) :
         LET text == wf[r].st.threadHistory[i].text
         IN (Len(cleanMessageText(text)) > MaxContentLength /\ Len(Trim(text)) > 0) =>
              IsTruncated(BuiltFor(r, i))
    /\ \A k \in 1..Len(wf[r].st.conversationContext) :
         Len(wf[r].st.conversationContext[k].content)
           <= MaxContentLength + Len(TruncationMarker)

\* A message of MaxContentLength + 1 letters was cut and marked.
C30_Witness ==
  \E r \in Fetched :
    \E i \in 1..Len(wf[r].st.threadHistory) :
      /\ Len(cleanMessageText(wf[r].st.threadHistory[i].text)) > MaxContentLength
      /\ IsTruncated(BuiltFor(r, i))

(* --------------------- validate over any message event ---------------- *)

\* The message events validate may be given: with and without bot_id and
\* subtype, from a user or from the bot's own account, with texts that mention
\* one bot, the other, neither, or that are empty or absent.
ValidateEvents ==
  {[BaseEvent EXCEPT !.bot_id = b, !.subtype = st, !.user = u, !.text = t,
                     !.message_text = mt] :
     b \in {Undefined, "B1"},
     st \in {Undefined, "bot_message", "message_changed"},
     u \in {"U1", "UBINA"},
     t \in {Undefined, "", "hello", "<@UBINA> what is Shabbat?", "<@UBINAH> compare sources"},
     mt \in {Undefined, "<@UBINA> edited"}}

\* A two-bot server that has dispatched the workflow of bot bina for one of
\* these events; the module-level bot user id is unresolved or is the id the
\* auth.test of either bot reported.
ValidateInit ==
  /\ env = EnvTwoBots
  /\ phase = "serving"
  /\ registry = RegisterAll(<< >>, discoverAndRegisterBots(EnvTwoBots))
  /\ fallbackHandler = FALSE
  /\ slackClient = "xoxb-binah"
  /\ botUserId \in {Undefined, "UBINA", "UBINAH"}
  /\ isCLIMode = FALSE
  /\ pendingAuthTests = {}
  /\ binahAgent = FALSE
  /\ processedMessages = <<messageId(BaseEvent)>>
  /\ botInfoCache = [b \in {"B1"} |-> Null]
  /\ reqs = [r \in Requests |->
               IF r = 1
               THEN [status |-> "handled", botName |-> "bina", type |-> "event_callback",
                     key |-> messageId(BaseEvent), code |-> 200, payload |-> "OK",
                     dispatched |-> TRUE]
               ELSE IdleRequest]
  /\ \E e \in ValidateEvents :
       wf = [r \in Requests |->
               IF r = 1
               THEN [pc |-> "resolveUserId", bot |-> getBot(registry, "bina"), event |-> e]
               ELSE NoWorkflow]
  /\ posted = [k \in MessageIds |-> 0]

ValidateNext ==
  \/ \E ok \in BOOLEAN : ResolveBotUserId(1, ok)
  \/ Validate(1)
  \/ Complete(1)

ValidateSpec == ValidateInit /\ [][ValidateNext]_vars

\* The conditions of the claim, on an event and the module-level bot user id.
MentionsResolvedBot(e, id) ==
  /\ e.bot_id = Undefined
  /\ e.subtype \in {Undefined, "bot_message"}
  /\ e.user # id
  /\ getMessageText(e) \notin {Null, ""}
  /\ id # Undefined
  /\ Includes(getMessageText(e), "<@" \o id \o ">")

WorkflowNodes ==
  {"validate", "acknowledge", "fetchContext", "callClaude",
   "validateSlackFormatting", "formatResponse", "sendResponse", "handleError"}

\* C32 as stated: in one invocation the reasoning service is requested at
\* most once and the delivery call is made at most once; no node makes a
\* second external call.
C32_NothingIsRetried ==
  \A r \in Started :
    /\ Len(CallsOf(r, "callClaude")) <= 1
    /\ Len(CallsOf(r, "sendResponse")) <= 1
    /\ \A node \in WorkflowNodes : Len(CallsOf(r, node)) <= 1

\* The node at which the invocation of r stands makes an external call.
MakesExternalCall(r) ==
  \/ wf[r].pc \in {"acknowledge", "fetchContext", "sendResponse"} /\ ~isCLIMode
  \/ wf[r].pc \in {"callClaude", "handleError"}
  \/ /\ wf[r].pc = "validateSlackFormatting"
     /\ Truthy(wf[r].st.claudeResponse)
     /\ needsFormatting(wf[r].st.claudeResponse)

\* The external call of the node never settles. The clients are built
\* without a timeout and no node races its await against one, so the node
\* never returns and nothing leaves this state.
AwaitsForever(r) ==
  /\ MakesExternalCall(r)
  /\ wf' = [wf EXCEPT ![r] = [@ EXCEPT !.pc = "awaiting"]]
  /\ UNCHANGED <<env, phase, registry, fallbackHandler, slackClient, botUserId,
                 isCLIMode, pendingAuthTests, binahAgent, processedMessages,
                 botInfoCache, reqs, posted>>

\* The legacy server with the workflow dispatched for a mention or for an
\* edit notification whose inner text is no string.
StallInit == \E e \in {MentionBina, EditedNumber} : LegacyServerDispatched(e)

\* The steps the runtime takes on its own: every node with a collaborator
\* that answers or fails.
StallProgress ==
  \/ ResolveBotUserId(1, TRUE)
  \/ Validate(1)
  \/ \E o \in {"ok", "throws"} : Acknowledge(1, o)
  \/ \E rep \in UNION {ThreadReplies(e) : e \in MessageEvents} : FetchContext(1, rep)
  \/ \E t \in ClaudeTexts \cup {Throws} : CallClaude(1, t, "", FALSE)
  \/ \E t \in HaikuTexts \cup {Throws} : ValidateSlackFormatting(1, t)
  \/ FormatResponse(1)
  \/ \E o \in PostOutcomes : SendResponse(1, o)
  \/ \E o \in PostOutcomes : HandleError(1, o)
  \/ Complete(1)

StallNext == StallProgress \/ AwaitsForever(1)

\* The runtime keeps running the graph: a step it can take is taken.
StallSpec == StallInit /\ [][StallNext]_vars /\ WF_vars(StallProgress)

\* C33 as stated: every dispatched invocation eventually reaches a terminal
\* state, also when an external collaborator never responds.
C33_EveryInvocationTerminates ==
  \A r \in Requests :
    (wf[r].pc = "resolveUserId") ~> (wf[r].pc \in {"__end__", "done", "rejected"})

(* ------------------------------ the CLI ------------------------------- *)

\* initializeServicesForCLI: the bot user id it sets for a bot name.
CLIUserId(botName) == "U" \o ToUpperCase(botName) \o "123456"

\* createMockSlackEvent of cli.ts.
createMockSlackEvent(message, botName) ==
  [BaseEvent EXCEPT !.user = "CLI_USER",
                    !.text = "<@" \o CLIUserId(botName) \o "> " \o message,
                    !.channel = "CLI_CHANNEL"]

CLIMessages == {"what is Shabbat?", "compare sources"}

\* The initial state processMessage of cli.ts passes to workflow.invoke.
CLIInitialState(event) ==
  [slackEvent |-> event, shouldProcess |-> FALSE, acknowledgmentSent |-> FALSE,
   threadHistory |-> << >>, conversationContext |-> << >>, messageText |-> Null,
   claudeResponse |-> Null, needsSlackFormatting |-> FALSE,
   slackValidatedResponse |-> Null, formattedResponse |-> Null, error |-> Null,
   errorOccurred |-> FALSE]

\* The CLI after discovery over one of the two configurations, each bot
\* registered through initializeServicesForCLI, with one message typed for
\* one of the registered bots and its workflow about to be invoked.
CLIInit ==
  /\ env \in {EnvLegacy, EnvTwoBots}
  /\ phase = "serving"
  /\ registry = RegisterAll(<< >>, discoverAndRegisterBots(env))
  /\ fallbackHandler = FALSE
  /\ slackClient = "mock-token"
  /\ botUserId = CLIUserId(registry[Len(registry)].name)
  /\ isCLIMode = TRUE
  /\ pendingAuthTests = {}
  /\ binahAgent = FALSE
  /\ processedMessages = << >>
  /\ botInfoCache = [b \in {"B1"} |-> Null]
  /\ reqs = [r \in Requests |-> IdleRequest]
  /\ \E i \in 1..Len(registry), m \in CLIMessages :
       wf = [r \in Requests |->
               IF r = 1
               THEN [pc |-> "validate", bot |-> registry[i],
                     st |-> CLIInitialState(createMockSlackEvent(m, registry[i].name)),
                     trace |-> << >>, calls |-> << >>]
               ELSE NoWorkflow]
  /\ posted = [k \in {messageId(createMockSlackEvent("", "bina"))} |-> 0]

CLINext ==
  \/ Validate(1)
  \/ Acknowledge(1, "ok")
  \/ \E rep \in ThreadReplies(MentionBina) : FetchContextWith(1, rep)
  \/ \E t1 \in ClaudeTexts \cup {Throws}, t2 \in FollowUpTexts \cup {Throws} :
       CallClaude(1, t1, t2, FALSE)
  \/ \E ready \in BOOLEAN, t1 \in DeepAgentTexts \cup {Throws},
        t2 \in DeepAgentTexts \cup {Throws} : CallDeepAgent(1, ready, t1, t2)
  \/ \E t \in HaikuTexts \cup {Throws} : ValidateSlackFormatting(1, t)
  \/ FormatResponse(1)
  \/ \E o \in PostOutcomes : SendResponse(1, o)
  \/ \E o \in PostOutcomes : HandleError(1, o)
  \/ Complete(1)

CLISpec == CLIInit /\ [][CLINext]_vars

SlackApis == {"reactions.add", "conversations.replies", "chat.postMessage"}

\* C34 as stated: in CLI mode no invocation makes a call of the Slack API.
C34_NoSlackCallInCLIMode ==
  isCLIMode =>
    \A r \in Started :
      \A i \in 1..Len(wf[r].calls) : wf[r].calls[i].api \notin SlackApis


(* ------------------------- deduplication and bots --------------------- *)

\* C35: two handled message events with the same channel and ts, addressed to
\* two different registered bots: when the workflow of one bot was
\* dispatched, the workflow of the other bot is dispatched too.
C35_DedupIsPerBot ==
  \A r1, r2 \in Requests :
    ( /\ r1 # r2
      /\ reqs[r1].status = "handled" /\ reqs[r2].status = "handled"
      /\ reqs[r1].code = 200 /\ reqs[r2].code = 200
      /\ reqs[r1].key \in MessageIds /\ reqs[r1].key = reqs[r2].key
      /\ reqs[r1].botName # reqs[r2].botName
      /\ reqs[r1].dispatched )
    => reqs[r2].dispatched


\* C36: a request whose bot_id is answered from botInfoCache is routed to
\* the name that the call which filled the cache returned for that bot_id.
C36_CachedAnswerIsFirstAnswer ==
  [][\A r \in Requests :
       ( /\ reqs[r].status = "idle"
         /\ reqs'[r].status = "routed"
         /\ reqs'[r].body.type = "event_callback"
         /\ reqs'[r].body.event.type = "message"
         /\ Truthy(reqs'[r].body.event.bot_id)
         /\ botInfoCache[reqs'[r].body.event.bot_id] # Null )
       => reqs'[r].botName =
            IdentifiedName(botInfoCache[reqs'[r].body.event.bot_id])]_vars


(* --------------------------- posts to the thread ---------------------- *)

\* C37: an invocation makes at most one chat.postMessage call, made by
\* sendResponse or by handleError; the two nodes never both run, and neither
\* runs twice.
C37_AtMostOnePost ==
  \A r \in Started :
    /\ Len(Posts(r)) <= 1
    /\ ~(Ran(r, "sendResponse") /\ Ran(r, "handleError"))
    /\ Cardinality(RunsOf(r, "sendResponse")) <= 1
    /\ Cardinality(RunsOf(r, "handleError")) <= 1
    /\ \A i \in 1..Len(Posts(r)) : Posts(r)[i].node \in {"sendResponse", "handleError"}

\* sendResponse's post failed, the invocation has ended, and that post is the
\* only one the invocation made.
C37_Witness ==
  \E r \in Started :
    /\ Ended(r)
    /\ CallEnded(r, "sendResponse", "not_ok")
    /\ wf[r].st.errorOccurred
    /\ Len(Posts(r)) = 1


(* ------------------------------ the error flag ------------------------ *)

\* C38: in every state of an invocation errorOccurred = true comes with an
\* error message, and once a node has returned errorOccurred = true the flag
\* stays true in every later state of the invocation.
C38_ErrorFlagHasMessageAndStays ==
  \A r \in Started :
    /\ wf[r].st.errorOccurred =>
         (wf[r].st.error # Null /\ IsString(wf[r].st.error) /\ wf[r].st.error # "")
    /\ (\E i \in 1..Len(wf[r].trace) : wf[r].trace[i].err) => wf[r].st.errorOccurred

\* A node set the flag, another node ran after it, and the flag is still set.
C38_Witness ==
  \E r \in Started :
    /\ \E i \in 1..(Len(wf[r].trace) - 1) : wf[r].trace[i].err
    /\ Ended(r)
    /\ wf[r].st.errorOccurred
    /\ wf[r].st.error # Null


(* ------------------------- order and termination ---------------------- *)

\* The place of a node in the sequence of createBaseWorkflow.
NodeRank(node) ==
  CASE node = "validate" -> 1
    [] node = "acknowledge" -> 2
    [] node = "fetchContext" -> 3
    [] node = "callClaude" -> 4
    [] node = "validateSlackFormatting" -> 5
    [] node = "formatResponse" -> 6
    [] node = "sendResponse" -> 7
    [] node = "handleError" -> 8

\* The nodes that have run did so in the order of the sequence, none twice,
\* handleError after all the others.
RanInOrder(r) ==
  \A i, j \in 1..Len(wf[r].trace) :
    i < j => NodeRank(wf[r].trace[i].node) < NodeRank(wf[r].trace[j].node)

\* C39: every invocation that has entered the graph reaches its end, and in
\* every state the nodes that have run did so at most once each and in the
\* order validate, acknowledge, fetchContext, callClaude,
\* validateSlackFormatting, formatResponse, sendResponse, handleError last.
C39_TerminatesInOrder ==
  \A r \in Requests :
    /\ [](r \in Started => RanInOrder(r))
    /\ (wf[r].pc = "validate") ~> (wf[r].pc \in {"__end__", "done"})


(* --------------------------- what a node changes ---------------------- *)

\* The fields of the workflow state that the objects returned by a node name.
ReturnedFields(node) ==
  CASE node = "validate" -> {"messageText", "shouldProcess", "errorOccurred", "error"}
    [] node = "acknowledge" -> {"acknowledgmentSent"}
    [] node = "fetchContext" ->
         {"threadHistory", "conversationContext", "errorOccurred", "error"}
    [] node = "callClaude" -> {"claudeResponse", "errorOccurred", "error"}
    [] node = "validateSlackFormatting" ->
         {"needsSlackFormatting", "slackValidatedResponse", "errorOccurred", "error"}
    [] node = "formatResponse" -> {"formattedResponse", "errorOccurred", "error"}
    [] node = "sendResponse" -> {"errorOccurred", "error"}
    [] node = "handleError" -> {}

\* The fields of the state of invocation r whose value the step changes.
ChangedFields(r) ==
  {f \in DOMAIN wf[r].st : wf'[r].st[f] # wf[r].st[f]}

\* C40: a step in which a node of invocation r runs changes only fields the
\* node returns; no node changes slackEvent or botContext; acknowledge
\* changes nothing but acknowledgmentSent; only formatResponse changes
\* formattedResponse; sendResponse when it succeeds, and handleError, change
\* no field.
C40_NodesChangeOnlyTheirFields ==
  [][\A r \in Requests :
       ( /\ wf[r].pc \in WorkflowNodes
         /\ wf'[r].pc \in WorkflowNodes \cup {"__end__"}
         /\ wf'[r].trace # wf[r].trace )
       => /\ ChangedFields(r) \subseteq ReturnedFields(wf[r].pc)
          /\ "slackEvent" \notin ChangedFields(r)
          /\ "botContext" \notin ChangedFields(r)
          /\ wf[r].pc = "acknowledge" => ChangedFields(r) \subseteq {"acknowledgmentSent"}
          /\ wf[r].pc # "formatResponse" => "formattedResponse" \notin ChangedFields(r)
          /\ (wf[r].pc = "sendResponse" /\ ~wf'[r].trace[Len(wf'[r].trace)].err)
               => ChangedFields(r) = {}
          /\ wf[r].pc = "handleError" => ChangedFields(r) = {}]_vars

\* An invocation ran from acknowledge to a successful sendResponse and its
\* state still holds the formatted response and the acknowledgment.
C40_Witness ==
  \E r \in Started :
    /\ Ended(r)
    /\ Ran(r, "acknowledge")
    /\ DeliveredOk(r)
    /\ wf[r].st.acknowledgmentSent
    /\ wf[r].st.formattedResponse # Null
    /\ wf[r].st.botContext.name = wf[r].bot.name

==============================================================================
